---- MODULE Spec2Model ----
(***************************************************************************)
(* NBA player statistics: name resolution, matchup filtering, aggregation  *)
(* and percentiles (helper/formula.py, helper/percentile.py,               *)
(* helper/gamelog.py, stats_gui.py, stats.py).                             *)
(*                                                                         *)
(* Text is a sequence of one-character strings, so that substring search,  *)
(* case folding and length are computed and not assumed.  A number that is *)
(* a float in the program is an exact rational [num, den]; a standard      *)
(* deviation is NaN or coef * sqrt(radicand) with a rational radicand.     *)
(***************************************************************************)
EXTENDS Integers, Sequences, FiniteSets, TLC

VARIABLES provider, op, args, ret, trace, threads, pyplot, charts, gui, workers

vars == <<provider, op, args, ret, trace, threads, pyplot, charts, gui, workers>>

(***************************************************************************)
(* Bounds of the model.                                                    *)
(***************************************************************************)
\* longest season log the provider returns under Spec
MaxGames == 3
\* longest season log the provider returns under SpecStats
MaxSample == 4

(***************************************************************************)
(* Static roster data of nba_api (a sample of the 30 teams and of the      *)
(* player index), and the texts a caller passes.                           *)
(***************************************************************************)
NBATeams ==
    << [abbreviation |-> <<"L", "A", "L">>,
        full_name |-> <<"L", "o", "s", " ", "A", "n", "g", "e", "l", "e", "s", " ", "L", "a", "k", "e", "r", "s">>,
        nickname |-> <<"L", "a", "k", "e", "r", "s">>],
       [abbreviation |-> <<"L", "A", "C">>,
        full_name |-> <<"L", "o", "s", " ", "A", "n", "g", "e", "l", "e", "s", " ", "C", "l", "i", "p", "p", "e", "r", "s">>,
        nickname |-> <<"C", "l", "i", "p", "p", "e", "r", "s">>],
       [abbreviation |-> <<"G", "S", "W">>,
        full_name |-> <<"G", "o", "l", "d", "e", "n", " ", "S", "t", "a", "t", "e", " ", "W", "a", "r", "r", "i", "o", "r", "s">>,
        nickname |-> <<"W", "a", "r", "r", "i", "o", "r", "s">>],
       [abbreviation |-> <<"B", "O", "S">>,
        full_name |-> <<"B", "o", "s", "t", "o", "n", " ", "C", "e", "l", "t", "i", "c", "s">>,
        nickname |-> <<"C", "e", "l", "t", "i", "c", "s">>],
       [abbreviation |-> <<"B", "K", "N">>,
        full_name |-> <<"B", "r", "o", "o", "k", "l", "y", "n", " ", "N", "e", "t", "s">>,
        nickname |-> <<"N", "e", "t", "s">>],
       [abbreviation |-> <<"C", "H", "A">>,
        full_name |-> <<"C", "h", "a", "r", "l", "o", "t", "t", "e", " ", "H", "o", "r", "n", "e", "t", "s">>,
        nickname |-> <<"H", "o", "r", "n", "e", "t", "s">>] >>

NBAPlayers ==
    << [id |-> 2544, full_name |-> <<"L", "e", "B", "r", "o", "n", " ", "J", "a", "m", "e", "s">>],
       [id |-> 201939, full_name |-> <<"S", "t", "e", "p", "h", "e", "n", " ", "C", "u", "r", "r", "y">>],
       [id |-> 203552, full_name |-> <<"S", "e", "t", "h", " ", "C", "u", "r", "r", "y">>] >>

TeamTexts ==
    { <<"G", "S", "W">>,
      <<"g", "s", "w">>,
      <<"B", "o", "s">>,
      <<"n", "e", "t">>,
      <<"X", "Y", "Z">>,
      <<"a", "r">>,
      <<"L", "a", "k", "e", "r", "s">>,
      <<"l", "a", "k", "e", "r", "s">>,
      <<"N", "e", "t", "s">>,
      <<"C", "e", "l", "t", "i", "c", "s">>,
      <<"L", "o", "s", " ", "A", "n", "g", "e", "l", "e", "s">>,
      <<"L", "o", "s", " ", "A", "n", "g", "e", "l", "e", "s", " ", "L", "a", "k", "e", "r", "s">>,
      <<"S", "o", "n", "i", "c", "s">> }

PlayerTexts ==
    { <<"L", "e", "B", "r", "o", "n", " ", "J", "a", "m", "e", "s">>,
      <<"l", "e", "b", "r", "o", "n", " ", "j", "a", "m", "e", "s">>,
      <<"L", "e", "B", "r", "o", "n">>,
      <<"C", "u", "r", "r", "y">>,
      <<"N", "o", "b", "o", "d", "y">> }

LAL_vs_GSW == <<"L", "A", "L", " ", "v", "s", ".", " ", "G", "S", "W">>

LAL_at_BOS == <<"L", "A", "L", " ", "@", " ", "B", "O", "S">>

GSW == <<"G", "S", "W">>

LeBron_James == <<"L", "e", "B", "r", "o", "n", " ", "J", "a", "m", "e", "s">>

UpperAlpha == <<"A", "B", "C", "D", "E", "F", "G", "H", "I", "J", "K", "L", "M", "N", "O", "P", "Q", "R", "S", "T", "U", "V", "W", "X", "Y", "Z">>

LowerAlpha == <<"a", "b", "c", "d", "e", "f", "g", "h", "i", "j", "k", "l", "m", "n", "o", "p", "q", "r", "s", "t", "u", "v", "w", "x", "y", "z">>

(***************************************************************************)
(* Text helpers: str.upper, str.lower, and re.search with flags=re.I on a  *)
(* pattern of literal characters.                                          *)
(***************************************************************************)
AlphaIndex(c, alphabet) == CHOOSE i \in 1..Len(alphabet) : alphabet[i] = c

lower(c) ==
    IF \E i \in 1..Len(UpperAlpha) : UpperAlpha[i] = c
    THEN LowerAlpha[AlphaIndex(c, UpperAlpha)]
    ELSE c

upper(c) ==
    IF \E i \in 1..Len(LowerAlpha) : LowerAlpha[i] = c
    THEN UpperAlpha[AlphaIndex(c, LowerAlpha)]
    ELSE c

str_lower(s) == [i \in 1..Len(s) |-> lower(s[i])]

str_upper(s) == [i \in 1..Len(s) |-> upper(s[i])]

\* re.search(pattern, s, flags=re.I): the pattern occurs somewhere in s,
\* letter case ignored
re_search(pattern, s) ==
    \E k \in 0..(Len(s) - Len(pattern)) :
        \A i \in 1..Len(pattern) : lower(pattern[i]) = lower(s[k + i])

\* re.search("^" + pattern + "$", s, flags=re.I): the whole of s, case ignored
re_search_anchored(pattern, s) == str_lower(pattern) = str_lower(s)

(***************************************************************************)
(* The roster lookups of nba_api.stats.static the resolvers call.  A lookup*)
(* by name is a case-insensitive search of the text inside the stored name,*)
(* which is why one text can select several teams or players.              *)
(***************************************************************************)
find_players_by_full_name(player_name) ==
    SelectSeq(NBAPlayers, LAMBDA p : re_search(player_name, p.full_name))

\* None is the empty sequence, a found team the one-element sequence
find_team_by_abbreviation(abbreviation) ==
    SelectSeq(NBATeams, LAMBDA t : re_search_anchored(abbreviation, t.abbreviation))

find_teams_by_full_name(text) ==
    SelectSeq(NBATeams, LAMBDA t : re_search(text, t.full_name))

find_teams_by_nickname(text) ==
    SelectSeq(NBATeams, LAMBDA t : re_search(text, t.nickname))

(***************************************************************************)
(* Team resolution.  Each resolver returns the candidates it ends with     *)
(* (team_list), the lookups it made in the order it made them (stages) and *)
(* what the nickname lookup found before any narrowing (nickname_found).   *)
(***************************************************************************)
\* mutant: the length test written < 3
AbbreviationStage_Below3(text) ==
    IF Len(text) < 3 THEN find_team_by_abbreviation(str_upper(text)) ELSE <<>>

AbbreviationStage(text) ==
    IF Len(text) <= 3 THEN find_team_by_abbreviation(str_upper(text)) ELSE <<>>

\* exact_matches = [t for t in team_list if t['nickname'].lower() == text.lower()]
ExactNicknameMatches(team_list, text) ==
    SelectSeq(team_list, LAMBDA t : str_lower(t.nickname) = str_lower(text))

\* the nickname lookup of formula.py and of the GUI, with its narrowing
NicknameStage(text) ==
    LET team_list     == find_teams_by_nickname(text)
        exact_matches == ExactNicknameMatches(team_list, text)
    IN  IF Len(team_list) > 1 /\ exact_matches # <<>>
        THEN exact_matches
        ELSE team_list

StagesTried(abbr, second, secondName, third, thirdName) ==
    (IF abbr THEN <<"abbreviation">> ELSE <<>>)
        \o (IF second THEN <<secondName>> ELSE <<>>)
        \o (IF third THEN <<thirdName>> ELSE <<>>)

\* mutant: the nickname lookup runs before the full-name lookup
ResolveTeamFormula_NicknameFirst(opponent_team) ==
    LET after_abbr == AbbreviationStage(opponent_team)
        nick_tried == after_abbr = <<>>
        after_nick == IF nick_tried THEN NicknameStage(opponent_team) ELSE after_abbr
        full_tried == after_nick = <<>>
        after_full == IF full_tried
                      THEN find_teams_by_full_name(opponent_team)
                      ELSE after_nick
    IN  [team_list      |-> after_full,
         stages         |-> StagesTried(Len(opponent_team) <= 3,
                                        nick_tried, "nickname",
                                        full_tried, "full_name"),
         nickname_found |-> IF nick_tried
                            THEN find_teams_by_nickname(opponent_team)
                            ELSE <<>>]

\* helper/formula.py, get_player_vs_team_stats: abbreviation, full name, nickname
ResolveTeamFormula(opponent_team) ==
    LET after_abbr == AbbreviationStage(opponent_team)
        full_tried == after_abbr = <<>>
        after_full == IF full_tried
                      THEN find_teams_by_full_name(opponent_team)
                      ELSE after_abbr
        nick_tried == after_full = <<>>
        after_nick == IF nick_tried THEN NicknameStage(opponent_team) ELSE after_full
    IN  [team_list      |-> after_nick,
         stages         |-> StagesTried(Len(opponent_team) <= 3,
                                        full_tried, "full_name",
                                        nick_tried, "nickname"),
         nickname_found |-> IF nick_tried
                            THEN find_teams_by_nickname(opponent_team)
                            ELSE <<>>]

\* helper/percentile.py, get_player_percentiles_vs_team: abbreviation,
\* nickname, full name, and no narrowing of the nickname candidates
ResolveTeamPercentile(opponent_team) ==
    LET after_abbr == AbbreviationStage(opponent_team)
        nick_tried == after_abbr = <<>>
        after_nick == IF nick_tried
                      THEN find_teams_by_nickname(opponent_team)
                      ELSE after_abbr
        full_tried == after_nick = <<>>
        after_full == IF full_tried
                      THEN find_teams_by_full_name(opponent_team)
                      ELSE after_nick
    IN  [team_list      |-> after_full,
         stages         |-> StagesTried(Len(opponent_team) <= 3,
                                        nick_tried, "nickname",
                                        full_tried, "full_name"),
         nickname_found |-> IF nick_tried
                            THEN find_teams_by_nickname(opponent_team)
                            ELSE <<>>]

\* stats_gui.py, NBAStatsGUI.find_team_abbreviation: the cascade of formula.py
ResolveTeamGUI(team_input) ==
    LET after_abbr == AbbreviationStage(team_input)
        full_tried == after_abbr = <<>>
        after_full == IF full_tried
                      THEN find_teams_by_full_name(team_input)
                      ELSE after_abbr
        nick_tried == after_full = <<>>
        after_nick == IF nick_tried THEN NicknameStage(team_input) ELSE after_full
    IN  [team_list      |-> after_nick,
         stages         |-> StagesTried(Len(team_input) <= 3,
                                        full_tried, "full_name",
                                        nick_tried, "nickname"),
         nickname_found |-> IF nick_tried
                            THEN find_teams_by_nickname(team_input)
                            ELSE <<>>]

\* f"{t['full_name']} ({t['abbreviation']})"
TeamInfo(t) == t.full_name \o <<" ", "(">> \o t.abbreviation \o <<")">>

\* f"{t}", the text of the dict t (the fields the roster sample keeps)
TeamRepr(t) ==
    <<"{", "'", "f", "u", "l", "l", "_", "n", "a", "m", "e", "'", ":", " ", "'">> \o t.full_name
        \o <<"'", ",", " ", "'", "a", "b", "b", "r", "e", "v", "i", "a", "t", "i", "o", "n", "'", ":", " ", "'">> \o t.abbreviation
        \o <<"'", ",", " ", "'", "n", "i", "c", "k", "n", "a", "m", "e", "'", ":", " ", "'">> \o t.nickname
        \o <<"'", "}">>

(***************************************************************************)
(* Game records and the matchup filter.                                    *)
(***************************************************************************)
\* mutant: every game counts as one against the opponent
MatchupContains_EveryGame(matchup, opponent_abbrev) == TRUE

\* df['MATCHUP'].str.contains(opponent_abbrev, case=False, na=False)
MatchupContains(matchup, opponent_abbrev) == re_search(opponent_abbrev, matchup)

\* mutant: only the home games ("vs. OPP") are kept
MatchupFilter_HomeOnly(df, opponent_abbrev) ==
    SelectSeq(df, LAMBDA g :
        MatchupContains(g.MATCHUP, <<"v", "s", ".", " ">> \o opponent_abbrev))

\* df[mask]: the rows the mask selects, in the order of df
MatchupFilter(df, opponent_abbrev) ==
    SelectSeq(df, LAMBDA g : MatchupContains(g.MATCHUP, opponent_abbrev))

\* df[col].values
Column(df, col) == [i \in 1..Len(df) |-> df[i][col]]

(***************************************************************************)
(* Numbers.  Rat(n, d) is the float n/d kept exact and in lowest terms, so *)
(* that equal numbers are equal values.  A standard deviation or a         *)
(* coefficient of variation is NaN or coef * sqrt(radicand).               *)
(***************************************************************************)
RECURSIVE GCD(_, _)
GCD(a, b) == IF b = 0 THEN a ELSE GCD(b, a % b)

Abs(x) == IF x < 0 THEN 0 - x ELSE x

\* d > 0
Rat(n, d) ==
    LET g == GCD(Abs(n), d)
    IN  [num |-> n \div g, den |-> d \div g]

NaN == [nan |-> TRUE, coef |-> 0, radicand |-> Rat(0, 1)]

Root(coef, r) == [nan |-> FALSE, coef |-> coef, radicand |-> r]

Zero == Root(0, Rat(0, 1))

RECURSIVE SeqSum(_)
SeqSum(s) == IF s = <<>> THEN 0 ELSE Head(s) + SeqSum(Tail(s))

\* pandas Series.mean(): sum / count
SeriesMean(values) == Rat(SeqSum(values), Len(values))

\* mutant: the population standard deviation (ddof = 0)
SeriesStd_Population(values) ==
    LET n    == Len(values)
        S    == SeqSum(values)
        sqr  == SeqSum([i \in 1..n |-> (S - n * values[i]) * (S - n * values[i])])
    IN  IF n <= 0 THEN NaN ELSE Root(1, Rat(sqr, n * n * n))

\* pandas Series.std(), ddof = 1: NaN unless count - ddof > 0, otherwise the
\* square root of sum((mean - x)^2) / (count - ddof).  With mean = S / n every
\* squared deviation is (S - n x)^2 / n^2.
SeriesStd(values) ==
    LET n    == Len(values)
        S    == SeqSum(values)
        sqr  == SeqSum([i \in 1..n |-> (S - n * values[i]) * (S - n * values[i])])
        d    == n - 1
    IN  IF d <= 0 THEN NaN ELSE Root(1, Rat(sqr, n * n * d))

\* std / avg for avg # 0; NaN / avg is NaN; sqrt(r) / (p/q) = sqrt(r q^2 / p^2)
RootOverRat(std, avg) ==
    IF std.nan
    THEN NaN
    ELSE Root(std.coef, Rat(std.radicand.num * avg.den * avg.den,
                            std.radicand.den * avg.num * avg.num))

\* k * x; k * NaN is NaN
Times(k, x) == IF x.nan THEN NaN ELSE Root(k * x.coef, x.radicand)

\* mutant: no guard on the mean; a float division by 0 gives NaN
CoefficientOfVariation_Unguarded(std, avg) ==
    IF avg.num = 0 THEN NaN ELSE Times(100, RootOverRat(std, avg))

\* 100 * (std / avg) if avg > 0 else 0
CoefficientOfVariation(std, avg) ==
    IF avg.num > 0 THEN Times(100, RootOverRat(std, avg)) ELSE Zero

\* mutant: method 'lower', the rank below the virtual index and no
\* interpolation
NpPercentile_Lower(data, q) ==
    LET a  == SortSeq(data, LAMBDA x, y : x < y)
        lo == ((Len(a) - 1) * q) \div 100
    IN  Rat(a[lo + 1], 1)

\* np.percentile(data, q), method 'linear': sort, virtual index (n - 1) q / 100,
\* interpolate between the ranks on either side of it
NpPercentile(data, q) ==
    LET a     == SortSeq(data, LAMBDA x, y : x < y)
        n     == Len(a)
        h100  == (n - 1) * q
        lo    == h100 \div 100
        gamma == h100 % 100
        hi    == IF lo + 1 < n THEN lo + 1 ELSE n - 1
    IN  Rat(100 * a[lo + 1] + gamma * (a[hi + 1] - a[lo + 1]), 100)

(***************************************************************************)
(* Results.  Every failure of the helpers is a ValueError; error names the *)
(* message it carries and candidates the list the message prints.          *)
(***************************************************************************)
Raise(error, candidates) ==
    [status |-> "error", error |-> error, candidates |-> candidates]

Return(value) == [status |-> "ok", value |-> value]

\* the season every call is made for (tests/test_stats.py)
season == <<"2", "0", "2", "3", "-", "2", "4">>

\* str(e) of the ValueError a vs-team helper raises
ErrorMessage(error, player_name, opponent_team) ==
    IF error = "TeamNotFound"
    THEN <<"T", "e", "a", "m", " ", "'">> \o opponent_team \o <<"'", " ", "n", "o", "t", " ", "f", "o", "u", "n", "d">>
    ELSE IF error = "NoGamesSeason"
    THEN <<"N", "o", " ", "g", "a", "m", "e", "s", " ", "f", "o", "u", "n", "d", " ", "f", "o", "r", " ">> \o player_name
             \o <<" ", "i", "n", " ">> \o season \o <<" ", "s", "e", "a", "s", "o", "n">>
    ELSE IF error = "NoGamesVsTeam"
    THEN <<"N", "o", " ", "g", "a", "m", "e", "s", " ", "f", "o", "u", "n", "d", " ", "f", "o", "r", " ">> \o player_name
             \o <<" ", "v", "s", " ">> \o opponent_team
             \o <<" ", "i", "n", " ">> \o season \o <<" ", "s", "e", "a", "s", "o", "n">>
    ELSE <<>>

\* what one call did: its result, the steps it ran in order, the player and
\* team resolutions it made (if any) and the rows its matchup filter kept
Outcome(result, steps, player, team, df_vs_team) ==
    [ret |-> result, steps |-> steps, player |-> player, team |-> team,
     df_vs_team |-> df_vs_team]

NoPlayer == [status |-> "none"]

NoTeam == [team_list |-> <<>>, stages |-> <<>>, nickname_found |-> <<>>]

\* mutant: several players found, the first one taken
ResolvePlayer_TakesFirst(player_name) ==
    LET player_list == find_players_by_full_name(player_name)
    IN  IF player_list = <<>>
        THEN Raise("PlayerNotFound", <<>>)
        ELSE Return(player_list[1].id)

\* the player lookup every entry point starts with
ResolvePlayer(player_name) ==
    LET player_list == find_players_by_full_name(player_name)
    IN  IF player_list = <<>>
        THEN Raise("PlayerNotFound", <<>>)
        ELSE IF Len(player_list) > 1
             THEN Raise("MultiplePlayers", player_list)
             ELSE Return(player_list[1].id)

\* the stat of the result -> the column of the game log
StatColumn ==
    [points |-> "PTS", rebounds |-> "REB", assists |-> "AST",
     blocks |-> "BLK", steals |-> "STL"] @@ ("3pt" :> "FG3M")

FormulaStats == {"points", "rebounds", "assists", "blocks", "steals", "3pt"}

\* mutant: the percentiles cover the three-pointers too
PercentileStats_WithThrees ==
    {"points", "rebounds", "assists", "blocks", "steals", "3pt"}

PercentileStats == {"points", "rebounds", "assists", "blocks", "steals"}

\* the stats dictionary of formula.py
Summarize(df) ==
    [averages     |-> [k \in FormulaStats |-> SeriesMean(Column(df, StatColumn[k]))],
     std_devs     |-> [k \in FormulaStats |-> SeriesStd(Column(df, StatColumn[k]))],
     games_played |-> Len(df)]

\* mutant: the raw values are kept last game first
Percentiles_RawReversed(df, player_name) ==
    [percentiles  |-> [k \in PercentileStats |->
                          [q \in {25, 50, 75, 100} |->
                              NpPercentile(Column(df, StatColumn[k]), q)]],
     raw_data     |-> [k \in PercentileStats |->
                          [i \in 1..Len(df) |-> df[Len(df) + 1 - i][StatColumn[k]]]],
     player_name  |-> player_name,
     games_played |-> Len(df)]

\* the result dictionary of percentile.py
Percentiles(df, player_name) ==
    [percentiles  |-> [k \in PercentileStats |->
                          [q \in {25, 50, 75, 100} |->
                              NpPercentile(Column(df, StatColumn[k]), q)]],
     raw_data     |-> [k \in PercentileStats |-> Column(df, StatColumn[k])],
     player_name  |-> player_name,
     games_played |-> Len(df)]

get_player_season_stats(player_name, log) ==
    LET player == ResolvePlayer(player_name)
        df     == log
    IN  IF player.status = "error"
        THEN Outcome(player, <<"find_players">>, player, NoTeam, <<>>)
        ELSE IF df = <<>>
             THEN Outcome(Raise("NoGamesSeason", <<>>),
                          <<"find_players", "PlayerGameLog">>, player, NoTeam, <<>>)
             ELSE Outcome(Return(Summarize(df)),
                          <<"find_players", "PlayerGameLog", "summarize">>,
                          player, NoTeam, <<>>)

\* mutant: the filtered-out case raises the message of the empty season
get_player_vs_team_stats_SeasonMessage(player_name, opponent_team, log) ==
    LET player     == ResolvePlayer(player_name)
        team       == ResolveTeamFormula(opponent_team)
        team_list  == team.team_list
        df         == log
        df_vs_team == MatchupFilter(df, team_list[1].abbreviation)
    IN  IF player.status = "error"
        THEN Outcome(player, <<"find_players">>, player, NoTeam, <<>>)
        ELSE IF team_list = <<>>
        THEN Outcome(Raise("TeamNotFound", <<>>),
                     <<"find_players", "find_teams">>, player, team, <<>>)
        ELSE IF Len(team_list) > 1
        THEN Outcome(Raise("MultipleTeams",
                           [i \in 1..Len(team_list) |-> TeamInfo(team_list[i])]),
                     <<"find_players", "find_teams">>, player, team, <<>>)
        ELSE IF df = <<>>
        THEN Outcome(Raise("NoGamesSeason", <<>>),
                     <<"find_players", "find_teams", "PlayerGameLog">>, player, team, <<>>)
        ELSE IF df_vs_team = <<>>
        THEN Outcome(Raise("NoGamesSeason", <<>>),
                     <<"find_players", "find_teams", "PlayerGameLog", "filter">>,
                     player, team, df_vs_team)
        ELSE Outcome(Return(Summarize(df_vs_team)),
                     <<"find_players", "find_teams", "PlayerGameLog", "filter",
                       "summarize">>,
                     player, team, df_vs_team)

get_player_vs_team_stats(player_name, opponent_team, log) ==
    LET player     == ResolvePlayer(player_name)
        team       == ResolveTeamFormula(opponent_team)
        team_list  == team.team_list
        df         == log
        df_vs_team == MatchupFilter(df, team_list[1].abbreviation)
    IN  IF player.status = "error"
        THEN Outcome(player, <<"find_players">>, player, NoTeam, <<>>)
        ELSE IF team_list = <<>>
        THEN Outcome(Raise("TeamNotFound", <<>>),
                     <<"find_players", "find_teams">>, player, team, <<>>)
        ELSE IF Len(team_list) > 1
        THEN Outcome(Raise("MultipleTeams",
                           [i \in 1..Len(team_list) |-> TeamInfo(team_list[i])]),
                     <<"find_players", "find_teams">>, player, team, <<>>)
        ELSE IF df = <<>>
        THEN Outcome(Raise("NoGamesSeason", <<>>),
                     <<"find_players", "find_teams", "PlayerGameLog">>, player, team, <<>>)
        ELSE IF df_vs_team = <<>>
        THEN Outcome(Raise("NoGamesVsTeam", <<>>),
                     <<"find_players", "find_teams", "PlayerGameLog", "filter">>,
                     player, team, df_vs_team)
        ELSE Outcome(Return(Summarize(df_vs_team)),
                     <<"find_players", "find_teams", "PlayerGameLog", "filter",
                       "summarize">>,
                     player, team, df_vs_team)

get_player_percentiles_season(player_name, log) ==
    LET player == ResolvePlayer(player_name)
        df     == log
    IN  IF player.status = "error"
        THEN Outcome(player, <<"find_players">>, player, NoTeam, <<>>)
        ELSE IF df = <<>>
             THEN Outcome(Raise("NoGamesSeason", <<>>),
                          <<"find_players", "PlayerGameLog">>, player, NoTeam, <<>>)
             ELSE Outcome(Return(Percentiles(df, player_name)),
                          <<"find_players", "PlayerGameLog", "summarize">>,
                          player, NoTeam, <<>>)

\* mutant: the game log is fetched before the team is resolved
get_player_percentiles_vs_team_FetchFirst(player_name, opponent_team, log) ==
    LET player     == ResolvePlayer(player_name)
        team       == ResolveTeamPercentile(opponent_team)
        team_list  == team.team_list
        df         == log
        df_vs_team == MatchupFilter(df, team_list[1].abbreviation)
    IN  IF player.status = "error"
        THEN Outcome(player, <<"find_players">>, player, NoTeam, <<>>)
        ELSE IF team_list = <<>>
        THEN Outcome(Raise("TeamNotFound", <<>>),
                     <<"find_players", "PlayerGameLog", "find_teams">>, player, team, <<>>)
        ELSE IF Len(team_list) > 1
        THEN Outcome(Raise("MultipleTeams",
                           [i \in 1..Len(team_list) |-> TeamRepr(team_list[i])]),
                     <<"find_players", "PlayerGameLog", "find_teams">>, player, team, <<>>)
        ELSE IF df = <<>>
        THEN Outcome(Raise("NoGamesSeason", <<>>),
                     <<"find_players", "find_teams", "PlayerGameLog">>, player, team, <<>>)
        ELSE IF df_vs_team = <<>>
        THEN Outcome(Raise("NoGamesVsTeam", <<>>),
                     <<"find_players", "find_teams", "PlayerGameLog", "filter">>,
                     player, team, df_vs_team)
        ELSE Outcome(Return(Percentiles(df_vs_team, player_name)
                                @@ [opponent |-> team_list[1].full_name]),
                     <<"find_players", "find_teams", "PlayerGameLog", "filter",
                       "summarize">>,
                     player, team, df_vs_team)

get_player_percentiles_vs_team(player_name, opponent_team, log) ==
    LET player     == ResolvePlayer(player_name)
        team       == ResolveTeamPercentile(opponent_team)
        team_list  == team.team_list
        df         == log
        df_vs_team == MatchupFilter(df, team_list[1].abbreviation)
    IN  IF player.status = "error"
        THEN Outcome(player, <<"find_players">>, player, NoTeam, <<>>)
        ELSE IF team_list = <<>>
        THEN Outcome(Raise("TeamNotFound", <<>>),
                     <<"find_players", "find_teams">>, player, team, <<>>)
        ELSE IF Len(team_list) > 1
        THEN Outcome(Raise("MultipleTeams",
                           [i \in 1..Len(team_list) |-> TeamRepr(team_list[i])]),
                     <<"find_players", "find_teams">>, player, team, <<>>)
        ELSE IF df = <<>>
        THEN Outcome(Raise("NoGamesSeason", <<>>),
                     <<"find_players", "find_teams", "PlayerGameLog">>, player, team, <<>>)
        ELSE IF df_vs_team = <<>>
        THEN Outcome(Raise("NoGamesVsTeam", <<>>),
                     <<"find_players", "find_teams", "PlayerGameLog", "filter">>,
                     player, team, df_vs_team)
        ELSE Outcome(Return(Percentiles(df_vs_team, player_name)
                                @@ [opponent |-> team_list[1].full_name]),
                     <<"find_players", "find_teams", "PlayerGameLog", "filter",
                       "summarize">>,
                     player, team, df_vs_team)

\* mutant: the empty data frame is returned as it is
get_player_game_log_NoEmptyCheck(player_name, log) ==
    LET player == ResolvePlayer(player_name)
        df     == log
    IN  IF player.status = "error"
        THEN Outcome(player, <<"find_players">>, player, NoTeam, <<>>)
        ELSE Outcome(Return(df), <<"find_players", "PlayerGameLog">>,
                     player, NoTeam, <<>>)

get_player_game_log(player_name, log) ==
    LET player == ResolvePlayer(player_name)
        df     == log
    IN  IF player.status = "error"
        THEN Outcome(player, <<"find_players">>, player, NoTeam, <<>>)
        ELSE IF df = <<>>
             THEN Outcome(Raise("NoGamesSeason", <<>>),
                          <<"find_players", "PlayerGameLog">>, player, NoTeam, <<>>)
             ELSE Outcome(Return(df), <<"find_players", "PlayerGameLog">>,
                          player, NoTeam, <<>>)

\* df.head(n), n >= 0: the first n rows of df, all of them when df has fewer
DataFrameHead(df, n) == SubSeq(df, 1, IF n < Len(df) THEN n ELSE Len(df))

\* the columns of display_cols that a line of the printed game log shows
GameLogLine(row) ==
    [MATCHUP |-> row.MATCHUP, PTS |-> row.PTS, REB |-> row.REB, AST |-> row.AST,
     STL |-> row.STL, BLK |-> row.BLK, FG3M |-> row.FG3M]

\* helper/gamelog.py, print_player_game_log; last_n_games = 0 stands for
\* None (both are false in "if last_n_games:")
print_player_game_log(player_name, log, last_n_games) ==
    LET outcome == get_player_game_log(player_name, log)
        df      == IF last_n_games # 0
                   THEN DataFrameHead(outcome.ret.value, last_n_games)
                   ELSE outcome.ret.value
    IN  IF outcome.ret.status = "error"
        THEN [outcome EXCEPT !.ret = [status |-> "printed_error",
                                      error  |-> outcome.ret.error]]
        ELSE [outcome EXCEPT !.ret =
                 [status      |-> "printed",
                  total_games |-> Len(df),
                  lines       |-> [i \in 1..Len(df) |-> GameLogLine(df[i])]]]

\* the lines print_player_season_stats and print_player_vs_team_stats print
\* from a result: "Error: ..." for a ValueError, else one line per stat
PrintedStats(outcome) ==
    IF outcome.ret.status = "error"
    THEN [outcome EXCEPT !.ret = [status |-> "printed_error",
                                  error  |-> outcome.ret.error]]
    ELSE LET stats == outcome.ret.value
         IN  [outcome EXCEPT !.ret =
                 [status       |-> "printed",
                  games_played |-> stats.games_played,
                  lines        |-> [k \in FormulaStats |->
                      [avg |-> stats.averages[k],
                       std |-> stats.std_devs[k],
                       cv  |-> CoefficientOfVariation(stats.std_devs[k],
                                                      stats.averages[k])]]]]

\* NBAStatsGUI.create_stat_card: the Average, Std Dev and CV % rows of a card
StatCard(stats_data) ==
    [status |-> "card",
     cells  |-> [k \in FormulaStats |->
                    [avg |-> stats_data.averages[k],
                     std |-> stats_data.std_devs[k],
                     cv  |-> CoefficientOfVariation(stats_data.std_devs[k],
                                                    stats_data.averages[k])]]]

\* mutant: of several teams the first one is taken
find_team_abbreviation_TakesFirst(team_input) ==
    LET team      == ResolveTeamGUI(team_input)
        team_list == team.team_list
    IN  Outcome(Return(IF team_list = <<>> THEN <<>> ELSE team_list[1].abbreviation),
                <<"find_teams">>, NoPlayer, team, <<>>)

\* NBAStatsGUI.find_team_abbreviation: the abbreviation, or None (<<>>)
find_team_abbreviation(team_input) ==
    LET team      == ResolveTeamGUI(team_input)
        team_list == team.team_list
    IN  Outcome(Return(IF team_list = <<>> \/ Len(team_list) > 1
                       THEN <<>>
                       ELSE team_list[1].abbreviation),
                <<"find_teams">>, NoPlayer, team, <<>>)

(***************************************************************************)
(* The season logs the provider can hold.  A game row carries its position *)
(* in the provider's answer as Game_ID; the box-score columns of a row are *)
(* drawn from one level v so that every column ranges over all of the      *)
(* levels.                                                                 *)
(***************************************************************************)
GameRow(id, matchup, v) ==
    [Game_ID |-> id, MATCHUP |-> matchup,
     PTS |-> v, REB |-> (v + 10) % 50, AST |-> (v + 20) % 50,
     BLK |-> (v + 30) % 50, STL |-> (v + 40) % 50, FG3M |-> 40 - v]

SeasonLogs(matchups, levels, maxLen) ==
    UNION { { [i \in 1..n |-> GameRow(i, f[i][1], f[i][2])] :
                f \in [1..n -> matchups \X levels] } : n \in 0..maxLen }

Matchups == { LAL_vs_GSW, LAL_at_BOS }

(***************************************************************************)
(* State: the season log the provider holds for the player and season that *)
(* is asked for, the last call (op, args), its result (ret) and what it    *)
(* did (trace).  For requests that run at the same time: each thread's     *)
(* request and how far it is (threads), the state of matplotlib.pyplot     *)
(* (pyplot) and the file at each thread's save_path (charts).              *)
(***************************************************************************)
Call(name, arguments, outcome) ==
    /\ op = "none"
    /\ op' = name
    /\ args' = arguments
    /\ ret' = outcome.ret
    /\ trace' = [steps |-> outcome.steps, player |-> outcome.player,
                 team |-> outcome.team, df_vs_team |-> outcome.df_vs_team]
    /\ UNCHANGED <<provider, threads, pyplot, charts, gui, workers>>

NoTrace ==
    [steps |-> <<>>, player |-> NoPlayer, team |-> NoTeam, df_vs_team |-> <<>>]

\* the threads that can run a request at the same time
Threads == {1, 2}

\* a thread that runs no request
IdleThread ==
    [pc |-> "idle", op |-> "none", player_name |-> <<>>,
     data |-> [status |-> "none"], fig |-> 0, ret |-> [status |-> "none"]]

\* a figure as plt.subplots creates it
BlankFigure ==
    [suptitle |-> <<>>, boxplots |-> [status |-> "none"], tight_layout |-> FALSE]

\* matplotlib.pyplot of the process: the figures it created and which of them
\* is the current one (0: none)
NoFigures == [figs |-> <<>>, gcf |-> 0]

\* no file at a save_path
NoFile == [saved |-> FALSE, figure |-> BlankFigure]

\* NBAStatsGUI as setup_gui leaves it: the Fetch Statistics button, the
\* status bar (with the thread that configured it last), the children of
\* results_frame, chart_images, the callbacks handed to root.after that the
\* main loop has not run yet, and the last messagebox.showerror.  fetches
\* counts the presses of Fetch Statistics, and cleared_in_flight tells that
\* clear_results ran since the button was disabled.
Window ==
    [fetch_btn         |-> [state |-> "normal", text |-> "Fetch Statistics"],
     status_label      |-> [text |-> "Ready", thread |-> "main"],
     results_frame     |-> <<>>,
     chart_images      |-> <<>>,
     after             |-> <<>>,
     messagebox        |-> "none",
     fetches           |-> 0,
     cleared_in_flight |-> FALSE]

Start ==
    /\ op = "none"
    /\ args = <<>>
    /\ ret = [status |-> "none"]
    /\ trace = NoTrace
    /\ threads = [t \in Threads |-> IdleThread]
    /\ pyplot = NoFigures
    /\ charts = [t \in Threads |-> NoFile]
    /\ gui = Window
    /\ workers = <<>>

Init == provider \in SeasonLogs(Matchups, {0, 10}, MaxGames) /\ Start

GetPlayerSeasonStats(p) ==
    Call("get_player_season_stats", <<p>>, get_player_season_stats(p, provider))

GetPlayerVsTeamStats(p, t) ==
    Call("get_player_vs_team_stats", <<p, t>>,
         get_player_vs_team_stats(p, t, provider))

GetPlayerPercentilesSeason(p) ==
    Call("get_player_percentiles_season", <<p>>,
         get_player_percentiles_season(p, provider))

GetPlayerPercentilesVsTeam(p, t) ==
    Call("get_player_percentiles_vs_team", <<p, t>>,
         get_player_percentiles_vs_team(p, t, provider))

GetPlayerGameLog(p) ==
    Call("get_player_game_log", <<p>>, get_player_game_log(p, provider))

\* the values of last_n_games a caller passes (0: not specified)
LastNGames == {0, 1, 2}

PrintPlayerGameLog(p, n) ==
    Call("print_player_game_log", <<p, n>>, print_player_game_log(p, provider, n))

PrintPlayerSeasonStats(p) ==
    Call("print_player_season_stats", <<p>>,
         PrintedStats(get_player_season_stats(p, provider)))

PrintPlayerVsTeamStats(p, t) ==
    Call("print_player_vs_team_stats", <<p, t>>,
         PrintedStats(get_player_vs_team_stats(p, t, provider)))

FindTeamAbbreviation(t) ==
    Call("find_team_abbreviation", <<t>>, find_team_abbreviation(t))

\* the GUI draws a card from the stats a fetch returned
CreateStatCard ==
    /\ op \in {"get_player_season_stats", "get_player_vs_team_stats"}
    /\ ret.status = "ok"
    /\ op' = "create_stat_card"
    /\ ret' = StatCard(ret.value)
    /\ UNCHANGED <<provider, args, trace, threads, pyplot, charts, gui, workers>>

\* the types the Game_ID column of a delivered game log can have: numbers,
\* or text already
GameIdDtypes == {"int64", "object"}

\* stats.py, NBAStatsGUI.create_game_log_display: game_log_df is the frame
\* the caller hands over (its rows and the type of its Game_ID column); the
\* function writes the column back as text and fills the table
create_game_log_display(game_log_df) ==
    [status      |-> "displayed",
     delivered   |-> game_log_df,
     game_log_df |-> [game_log_df EXCEPT !.Game_ID_dtype = "object"],
     total_games |-> Len(game_log_df.rows)]

\* the GUI shows the game log a fetch returned
CreateGameLogDisplay(dtype) ==
    /\ op = "get_player_game_log"
    /\ ret.status = "ok"
    /\ op' = "create_game_log_display"
    /\ ret' = create_game_log_display([Game_ID_dtype |-> dtype, rows |-> ret.value])
    /\ UNCHANGED <<provider, args, trace, threads, pyplot, charts, gui, workers>>

\* the caller takes the result; the next call starts afresh
Collect ==
    /\ op # "none"
    /\ op' = "none"
    /\ args' = <<>>
    /\ ret' = [status |-> "none"]
    /\ trace' = NoTrace
    /\ UNCHANGED <<provider, threads, pyplot, charts, gui, workers>>

Next ==
    \/ \E p \in PlayerTexts : GetPlayerSeasonStats(p)
    \/ \E p \in PlayerTexts, t \in TeamTexts : GetPlayerVsTeamStats(p, t)
    \/ \E p \in PlayerTexts : GetPlayerPercentilesSeason(p)
    \/ \E p \in PlayerTexts, t \in TeamTexts : GetPlayerPercentilesVsTeam(p, t)
    \/ \E p \in PlayerTexts : GetPlayerGameLog(p)
    \/ \E p \in PlayerTexts, n \in LastNGames : PrintPlayerGameLog(p, n)
    \/ \E p \in PlayerTexts : PrintPlayerSeasonStats(p)
    \/ \E p \in PlayerTexts, t \in TeamTexts : PrintPlayerVsTeamStats(p, t)
    \/ \E t \in TeamTexts : FindTeamAbbreviation(t)
    \/ CreateStatCard
    \/ \E dtype \in GameIdDtypes : CreateGameLogDisplay(dtype)
    \/ Collect

Spec == Init /\ [][Next]_vars

(***************************************************************************)
(* SpecStats: the season operations over longer logs with a wider range of *)
(* box-score values, for the claims about the numbers.                     *)
(***************************************************************************)
InitStats ==
    provider \in SeasonLogs({LAL_vs_GSW}, {0, 10, 20, 30, 40}, MaxSample) /\ Start

NextStats ==
    \/ GetPlayerSeasonStats(LeBron_James)
    \/ GetPlayerVsTeamStats(LeBron_James, GSW)
    \/ GetPlayerPercentilesSeason(LeBron_James)
    \/ GetPlayerPercentilesVsTeam(LeBron_James, GSW)
    \/ PrintPlayerSeasonStats(LeBron_James)
    \/ PrintPlayerVsTeamStats(LeBron_James, GSW)
    \/ CreateStatCard
    \/ Collect

SpecStats == InitStats /\ [][NextStats]_vars

(***************************************************************************)
(* SpecFetch: the five core operations with a provider whose request can   *)
(* fail.  The helpers do not catch what PlayerGameLog(...) raises, so the  *)
(* exception leaves the helper at the step that fetches.                   *)
(***************************************************************************)
\* the steps of a call up to and including the fetch
UpToFetch(steps) == SelectSeq(steps, LAMBDA x : x \notin {"filter", "summarize"})

\* mutant: a failed request is sent again and the call goes on
FetchFails_Retries(outcome) ==
    [outcome EXCEPT !.steps =
        UpToFetch(outcome.steps) \o <<"PlayerGameLog">>
            \o SelectSeq(outcome.steps, LAMBDA x : x \in {"filter", "summarize"})]

\* playergamelog.PlayerGameLog(...) raises: what the call that would have
\* had this outcome does instead
FetchFails(outcome) ==
    Outcome(Raise("ProviderError", <<>>), UpToFetch(outcome.steps),
            outcome.player, outcome.team, <<>>)

\* a call that gets as far as the provider, whose request fails
ProviderFails(name, arguments, outcome) ==
    /\ op = "none"
    /\ \E i \in 1..Len(outcome.steps) : outcome.steps[i] = "PlayerGameLog"
    /\ Call(name, arguments, FetchFails(outcome))

GetPlayerSeasonStats_ProviderFails(p) ==
    ProviderFails("get_player_season_stats", <<p>>,
                  get_player_season_stats(p, provider))

GetPlayerVsTeamStats_ProviderFails(p, t) ==
    ProviderFails("get_player_vs_team_stats", <<p, t>>,
                  get_player_vs_team_stats(p, t, provider))

GetPlayerPercentilesSeason_ProviderFails(p) ==
    ProviderFails("get_player_percentiles_season", <<p>>,
                  get_player_percentiles_season(p, provider))

GetPlayerPercentilesVsTeam_ProviderFails(p, t) ==
    ProviderFails("get_player_percentiles_vs_team", <<p, t>>,
                  get_player_percentiles_vs_team(p, t, provider))

GetPlayerGameLog_ProviderFails(p) ==
    ProviderFails("get_player_game_log", <<p>>, get_player_game_log(p, provider))

NextFetch ==
    \/ \E p \in PlayerTexts : GetPlayerSeasonStats(p)
    \/ \E p \in PlayerTexts, t \in TeamTexts : GetPlayerVsTeamStats(p, t)
    \/ \E p \in PlayerTexts : GetPlayerPercentilesSeason(p)
    \/ \E p \in PlayerTexts, t \in TeamTexts : GetPlayerPercentilesVsTeam(p, t)
    \/ \E p \in PlayerTexts : GetPlayerGameLog(p)
    \/ \E p \in PlayerTexts : GetPlayerSeasonStats_ProviderFails(p)
    \/ \E p \in PlayerTexts, t \in TeamTexts : GetPlayerVsTeamStats_ProviderFails(p, t)
    \/ \E p \in PlayerTexts : GetPlayerPercentilesSeason_ProviderFails(p)
    \/ \E p \in PlayerTexts, t \in TeamTexts :
           GetPlayerPercentilesVsTeam_ProviderFails(p, t)
    \/ \E p \in PlayerTexts : GetPlayerGameLog_ProviderFails(p)
    \/ Collect

SpecFetch == Init /\ [][NextFetch]_vars

(***************************************************************************)
(* SpecThreads: two requests that run at the same time, each on its own    *)
(* thread and with its own save_path.  The helpers work on local variables *)
(* only; plot_player_percentiles_season also calls matplotlib.pyplot,      *)
(* whose plt.* functions act on the current figure of the process, while   *)
(* fig.* and ax.* act on the figure the thread holds.                      *)
(***************************************************************************)
\* longest season log the provider returns under SpecThreads
MaxThreadGames == 2

ThreadOps == {"get_player_season_stats", "plot_player_percentiles_season"}

ThreadPlayers ==
    { LeBron_James,
      <<"L", "e", "B", "r", "o", "n">>,
      <<"N", "o", "b", "o", "d", "y">> }

\* fig.suptitle(f'{player_name} - {season} Season Statistics...')
Suptitle(player_name) ==
    player_name \o <<" ", "-", " ">> \o season \o <<" ", "S", "e", "a", "s", "o", "n", " ", "S", "t", "a", "t", "i", "s", "t", "i", "c", "s">>

\* what a request returns (or raises) from its arguments and the provider's
\* log
ThreadResult(name, player_name) ==
    IF name = "get_player_season_stats"
    THEN get_player_season_stats(player_name, provider).ret
    ELSE get_player_percentiles_season(player_name, provider).ret

\* a thread starts a request
ThreadCall(t, name, player_name) ==
    /\ threads[t].pc = "idle"
    /\ threads' = [threads EXCEPT ![t] =
           [IdleThread EXCEPT !.pc = "called", !.op = name,
                              !.player_name = player_name]]
    /\ UNCHANGED <<provider, op, args, ret, trace, pyplot, charts, gui, workers>>

\* get_player_season_stats, or the first statement of the plot function:
\* data = get_player_percentiles_season(player_name, season); a ValueError
\* ends the request
GetData(t) ==
    /\ threads[t].pc = "called"
    /\ LET data  == ThreadResult(threads[t].op, threads[t].player_name)
           plots == threads[t].op = "plot_player_percentiles_season"
                        /\ data.status = "ok"
       IN  threads' = [threads EXCEPT ![t] =
               [@ EXCEPT !.pc = IF plots THEN "data" ELSE "done",
                         !.data = data,
                         !.ret = IF plots THEN @ ELSE data]]
    /\ UNCHANGED <<provider, op, args, ret, trace, pyplot, charts, gui, workers>>

\* fig, axes = plt.subplots(2, 3, ...): a new figure, which becomes the
\* current figure of the process
PltSubplots(t) ==
    /\ threads[t].pc = "data"
    /\ pyplot' = [figs |-> Append(pyplot.figs, BlankFigure),
                  gcf  |-> Len(pyplot.figs) + 1]
    /\ threads' = [threads EXCEPT ![t] =
           [@ EXCEPT !.pc = "subplots", !.fig = Len(pyplot.figs) + 1]]
    /\ UNCHANGED <<provider, op, args, ret, trace, charts, gui, workers>>

\* fig.suptitle(...) and the loop over the axes: the thread draws into its
\* own figure
DrawBoxPlots(t) ==
    /\ threads[t].pc = "subplots"
    /\ pyplot' = [pyplot EXCEPT !.figs[threads[t].fig] =
           [@ EXCEPT !.suptitle = Suptitle(threads[t].player_name),
                     !.boxplots = threads[t].data]]
    /\ threads' = [threads EXCEPT ![t] = [@ EXCEPT !.pc = "drawn"]]
    /\ UNCHANGED <<provider, op, args, ret, trace, charts, gui, workers>>

\* plt.tight_layout(): lays out the current figure
PltTightLayout(t) ==
    /\ threads[t].pc = "drawn"
    /\ pyplot' = [pyplot EXCEPT !.figs[pyplot.gcf] =
           [@ EXCEPT !.tight_layout = TRUE]]
    /\ threads' = [threads EXCEPT ![t] = [@ EXCEPT !.pc = "tight_layout"]]
    /\ UNCHANGED <<provider, op, args, ret, trace, charts, gui, workers>>

\* plt.savefig(save_path, ...): writes the current figure to the thread's
\* save_path; return data
PltSavefig(t) ==
    /\ threads[t].pc = "tight_layout"
    /\ charts' = [charts EXCEPT ![t] =
           [saved |-> TRUE, figure |-> pyplot.figs[pyplot.gcf]]]
    /\ threads' = [threads EXCEPT ![t] =
           [@ EXCEPT !.pc = "done", !.ret = threads[t].data]]
    /\ UNCHANGED <<provider, op, args, ret, trace, pyplot, gui, workers>>

InitThreads ==
    provider \in SeasonLogs({LAL_vs_GSW}, {0, 10}, MaxThreadGames) /\ Start

NextThreads ==
    \E t \in Threads :
        \/ \E name \in ThreadOps, p \in ThreadPlayers : ThreadCall(t, name, p)
        \/ GetData(t)
        \/ PltSubplots(t)
        \/ DrawBoxPlots(t)
        \/ PltTightLayout(t)
        \/ PltSavefig(t)

SpecThreads == InitThreads /\ [][NextThreads]_vars

(***************************************************************************)
(* SpecGUI: the window of stats_gui.py (stats.py has the same fetch code). *)
(* The main thread runs the button commands and the callbacks handed to    *)
(* root.after, one at a time and in the order they were handed over; every *)
(* press of Fetch Statistics that passes validation starts a thread that   *)
(* runs fetch_stats_thread.  A worker's step is the code between two calls *)
(* of update_status.  The provider holds the same log for every season     *)
(* that is asked for, and its requests can fail.  An error dialog is       *)
(* closed before the next valid press of Fetch Statistics.                 *)
(***************************************************************************)
\* most presses of Fetch Statistics
MaxFetches == 2
\* longest season log the provider returns under SpecGUI
MaxGuiGames == 1
\* most requests of one worker that the provider fails
MaxFailures == 1

\* the seasons that have a checkbox, in the order of season_vars (a sample
\* of the six)
seasons ==
    << <<"2", "0", "2", "4", "-", "2", "5">>,
       <<"2", "0", "2", "5", "-", "2", "6">> >>

\* what the player and team entries can hold when the button is pressed
PlayerEntries ==
    { <<>>, <<" ">>, <<" ">> \o LeBron_James, <<"N", "o", "b", "o", "d", "y">> }

TeamEntries ==
    { <<>>, <<" ">>, GSW \o <<" ">>,
      <<"L", "o", "s", " ", "A", "n", "g", "e", "l", "e", "s">>,
      <<"X", "Y", "Z">> }

\* mutant: the text is taken as typed
str_strip_AsTyped(s) == s

\* str.strip()
RECURSIVE str_strip(_)
str_strip(s) ==
    IF s = <<>> THEN s
    ELSE IF Head(s) = " " THEN str_strip(Tail(s))
    ELSE IF s[Len(s)] = " " THEN str_strip(SubSeq(s, 1, Len(s) - 1))
    ELSE s

\* mutant: the seasons are taken in the order they were selected
reversed_InOrder(seq) == seq

\* reversed(seq)
reversed(seq) == [i \in 1..Len(seq) |-> seq[Len(seq) + 1 - i]]

\* [season for season, var in self.season_vars.items() if var.get()], checked
\* being the checkboxes that are ticked
SelectedSeasons(checked) ==
    LET RECURSIVE pick(_)
        pick(i) == IF i > Len(seasons) THEN <<>>
                   ELSE (IF i \in checked THEN <<seasons[i]>> ELSE <<>>) \o pick(i + 1)
    IN  pick(1)

\* s.replace(' ', '_').lower()
FileName(s) == [i \in 1..Len(s) |-> IF s[i] = " " THEN "_" ELSE lower(s[i])]

\* f"charts/{player...}_{season}.png"
ChartPath(player, s) ==
    <<"c", "h", "a", "r", "t", "s", "/">> \o FileName(player) \o <<"_">> \o s
        \o <<".", "p", "n", "g">>

\* f"charts/{player...}_vs_{team...}_{season}.png"
VsChartPath(player, team, s) ==
    <<"c", "h", "a", "r", "t", "s", "/">> \o FileName(player) \o <<"_", "v", "s", "_">>
        \o FileName(team) \o <<"_">> \o s \o <<".", "p", "n", "g">>

\* df['MATCHUP'].unique().tolist(): the values in order of first appearance
UniqueMatchups(df) ==
    LET col  == Column(df, "MATCHUP")
        kept == SelectSeq([i \in 1..Len(col) |-> <<i, col[i]>>],
                          LAMBDA x : \A j \in 1..(x[1] - 1) : col[j] # x[2])
    IN  [k \in 1..Len(kept) |-> kept[k][2]]

\* a key of season_data that holds None or is not set
Nothing == [status |-> "none"]

\* season_data as the loop creates it.  Each stage has one field: Nothing,
\* the value the stage stored, or the error whose str(e) it stored under
\* its *_error key (chart and vs_chart stand for chart_path and
\* vs_chart_path).  vs_team_log is <<>> for None, available_matchups is
\* <<>> when the key is not set.
SeasonData(s) ==
    [season |-> s, season_stats |-> Nothing, vs_team_stats |-> Nothing,
     chart |-> Nothing, vs_chart |-> Nothing, game_log |-> Nothing,
     vs_team_log |-> <<>>, team_not_found |-> FALSE, available_matchups |-> <<>>]

\* the thread fetch_stats starts: its arguments, the seasons the loop has
\* still to do, its local variables, and how many of its requests the
\* provider has failed
Worker(player, team, selected_seasons) ==
    [pc |-> "start", player |-> player, team |-> team, seasons |-> selected_seasons,
     todo |-> reversed(selected_seasons), all_data |-> <<>>,
     season_data |-> SeasonData(<<>>), failed |-> 0]

\* the call gets as far as the provider, whose request fails
RequestFails(outcome, fails) ==
    fails /\ \E i \in 1..Len(outcome.steps) : outcome.steps[i] = "PlayerGameLog"

\* what a stage's call returns or raises
StageResult(outcome, fails) ==
    IF RequestFails(outcome, fails) THEN FetchFails(outcome).ret ELSE outcome.ret

\* the worker's count of failed requests after a call
FailedAfter(me, outcome, fails) ==
    IF RequestFails(outcome, fails) THEN me.failed + 1 ELSE me.failed

\* update_status(message), called on the given thread
update_status(g, message, thread) ==
    [g EXCEPT !.status_label = [text |-> message, thread |-> thread]]

\* mutant: clearing also drops the callbacks that wait
clear_results_DropsCallbacks(g) ==
    update_status([g EXCEPT !.results_frame = <<>>, !.chart_images = <<>>,
                            !.after = <<>>],
                  "Results cleared", "main")

\* clear_results
clear_results(g) ==
    update_status([g EXCEPT !.results_frame = <<>>, !.chart_images = <<>>],
                  "Results cleared", "main")

\* root.after(0, fn, ...): the callback joins the ones that wait
root_after(g, fn, player, team, all_data) ==
    [g EXCEPT !.after = Append(@, [fn |-> fn, player |-> player, team |-> team,
                                   all_data |-> all_data])]

\* the pc of a worker that is done with a season
NextSeason(w) == IF Len(workers[w].todo) > 1 THEN "season_stats" ELSE "display"

\* mutant: the button stays enabled during the fetch
disable_fetch_btn_Skipped(g) == g

\* self.fetch_btn.config(state='disabled', text='Fetching...')
disable_fetch_btn(g) ==
    [g EXCEPT !.fetch_btn = [state |-> "disabled", text |-> "Fetching..."]]

\* fetch_stats: the command of the Fetch Statistics button, which Tk runs
\* only while the button is not disabled
FetchStats(player_entry, team_entry, checked) ==
    LET player           == str_strip(player_entry)
        team             == str_strip(team_entry)
        selected_seasons == SelectedSeasons(checked)
        error            == IF player = <<>> THEN "Please enter a player name"
                            ELSE IF team = <<>> THEN "Please enter an opponent team"
                            ELSE IF selected_seasons = <<>>
                                 THEN "Please select at least one season"
                                 ELSE "none"
    IN  /\ gui.fetch_btn.state = "normal"
        /\ gui.fetches < MaxFetches
        /\ IF error # "none"
           THEN /\ gui' = [gui EXCEPT !.messagebox = error, !.fetches = @ + 1]
                /\ UNCHANGED workers
           ELSE /\ gui' = clear_results(
                              [disable_fetch_btn(gui) EXCEPT
                                  !.messagebox = "none",
                                  !.cleared_in_flight = FALSE,
                                  !.fetches = @ + 1])
                /\ workers' = Append(workers, Worker(player, team, selected_seasons))
        /\ UNCHANGED <<provider, op, args, ret, trace, threads, pyplot, charts>>

\* the command of the Clear Results button
ClearResults ==
    /\ gui' = [clear_results(gui) EXCEPT
                  !.cleared_in_flight = @ \/ gui.fetch_btn.state = "disabled"]
    /\ UNCHANGED <<provider, op, args, ret, trace, threads, pyplot, charts, workers>>

\* fetch_stats_thread up to the loop
WorkerStart(w) ==
    /\ workers[w].pc = "start"
    /\ gui' = update_status(gui, "Fetching data from NBA API...", "worker")
    /\ workers' = [workers EXCEPT
                      ![w].pc = IF workers[w].todo = <<>> THEN "display"
                                ELSE "season_stats",
                      ![w].season_data = SeasonData(Head(workers[w].todo))]
    /\ UNCHANGED <<provider, op, args, ret, trace, threads, pyplot, charts>>

\* the season statistics stage
WorkerSeasonStats(w, fails) ==
    /\ workers[w].pc = "season_stats"
    /\ fails => workers[w].failed < MaxFailures
    /\ gui' = update_status(gui, "Fetching season stats", "worker")
    /\ workers' = [workers EXCEPT
          ![w].pc = "vs_team_stats",
          ![w].failed = FailedAfter(workers[w],
              get_player_season_stats(workers[w].player, provider), fails),
          ![w].season_data.season_stats =
              StageResult(get_player_season_stats(workers[w].player, provider), fails)]
    /\ UNCHANGED <<provider, op, args, ret, trace, threads, pyplot, charts>>

\* the vs-team statistics stage
WorkerVsTeamStats(w, fails) ==
    /\ workers[w].pc = "vs_team_stats"
    /\ fails => workers[w].failed < MaxFailures
    /\ gui' = update_status(gui, "Fetching vs stats", "worker")
    /\ workers' = [workers EXCEPT
          ![w].pc = "charts",
          ![w].failed = FailedAfter(workers[w],
              get_player_vs_team_stats(workers[w].player, workers[w].team, provider),
              fails),
          ![w].season_data.vs_team_stats =
              StageResult(get_player_vs_team_stats(workers[w].player, workers[w].team,
                                                   provider), fails)]
    /\ UNCHANGED <<provider, op, args, ret, trace, threads, pyplot, charts>>

\* the two chart stages
WorkerCharts(w, fails, vs_fails) ==
    LET me       == workers[w]
        season_o == get_player_percentiles_season(me.player, provider)
        vs_o     == get_player_percentiles_vs_team(me.player, me.team, provider)
        plot     == StageResult(season_o, fails)
        vs_plot  == StageResult(vs_o, vs_fails)
        failed   == FailedAfter([me EXCEPT !.failed = FailedAfter(me, season_o, fails)],
                                vs_o, vs_fails)
    IN  /\ me.pc = "charts"
        /\ (fails \/ vs_fails) => failed <= MaxFailures
        /\ gui' = update_status(gui, "Generating percentile charts", "worker")
        /\ workers' = [workers EXCEPT
              ![w].pc = "game_log",
              ![w].failed = failed,
              ![w].season_data.chart =
                  IF plot.status = "ok"
                  THEN Return(ChartPath(me.player, me.season_data.season)) ELSE plot,
              ![w].season_data.vs_chart =
                  IF vs_plot.status = "ok"
                  THEN Return(VsChartPath(me.player, me.team, me.season_data.season))
                  ELSE vs_plot]
        /\ UNCHANGED <<provider, op, args, ret, trace, threads, pyplot, charts>>

\* the game log stage and the end of the loop body
WorkerGameLog(w, fails) ==
    LET me          == workers[w]
        game_log_df == StageResult(get_player_game_log(me.player, provider), fails)
        team_abbrev == find_team_abbreviation(me.team).ret.value
        vs_team_log == IF team_abbrev # <<>>
                       THEN MatchupFilter(game_log_df.value, team_abbrev)
                       ELSE <<>>
        data        == IF game_log_df.status = "ok"
                       THEN [me.season_data EXCEPT
                                !.game_log = game_log_df,
                                !.vs_team_log = vs_team_log,
                                !.team_not_found = (team_abbrev = <<>>),
                                !.available_matchups =
                                    IF vs_team_log = <<>>
                                    THEN UniqueMatchups(game_log_df.value)
                                    ELSE <<>>]
                       ELSE [me.season_data EXCEPT !.game_log = game_log_df]
    IN  /\ me.pc = "game_log"
        /\ fails => me.failed < MaxFailures
        /\ gui' = update_status(gui, "Fetching game log", "worker")
        /\ workers' = [workers EXCEPT
              ![w].pc = NextSeason(w),
              ![w].failed = FailedAfter(me, get_player_game_log(me.player, provider),
                                        fails),
              ![w].all_data = Append(@, data),
              ![w].todo = Tail(@),
              ![w].season_data = IF Len(me.todo) > 1 THEN SeasonData(me.todo[2])
                                 ELSE SeasonData(<<>>)]
        /\ UNCHANGED <<provider, op, args, ret, trace, threads, pyplot, charts>>

\* an exception outside the stages' own try blocks (update_status raises):
\* control passes to the outer except
WorkerRaises(w) ==
    /\ workers[w].pc \in {"start", "season_stats", "vs_team_stats", "charts", "game_log"}
    /\ workers' = [workers EXCEPT ![w].pc = "except", ![w].todo = <<>>,
                                  ![w].all_data = <<>>,
                                  ![w].season_data = SeasonData(<<>>)]
    /\ UNCHANGED <<provider, op, args, ret, trace, threads, pyplot, charts, gui>>

\* root.after(0, self.display_results, player, team, all_data)
WorkerScheduleDisplay(w) ==
    /\ workers[w].pc = "display"
    /\ gui' = root_after(gui, "display_results", workers[w].player, workers[w].team,
                         workers[w].all_data)
    /\ workers' = [workers EXCEPT ![w].pc = "finally", ![w].all_data = <<>>]
    /\ UNCHANGED <<provider, op, args, ret, trace, threads, pyplot, charts>>

\* except Exception: root.after(0, messagebox.showerror, ...)
WorkerExcept(w) ==
    /\ workers[w].pc = "except"
    /\ gui' = root_after(gui, "showerror", <<>>, <<>>, <<>>)
    /\ workers' = [workers EXCEPT ![w].pc = "finally"]
    /\ UNCHANGED <<provider, op, args, ret, trace, threads, pyplot, charts>>

\* finally: root.after(0, self.enable_fetch_button); the thread ends
WorkerFinally(w) ==
    /\ workers[w].pc = "finally"
    /\ gui' = root_after(gui, "enable_fetch_button", <<>>, <<>>, <<>>)
    /\ workers' = [i \in 1..(Len(workers) - 1) |->
                      IF i < w THEN workers[i] ELSE workers[i + 1]]
    /\ UNCHANGED <<provider, op, args, ret, trace, threads, pyplot, charts>>

\* no widget at a place of the grid
NoWidget == [status |-> "none"]

\* the red label display_results shows for a stage's error: its prefix and
\* the error whose message follows the prefix
ErrorLabel(prefix, error) ==
    [status |-> "error_label", prefix |-> prefix, error |-> error]

\* the card or the label display_results shows for a statistics stage
StatsWidget(prefix, stage) ==
    IF stage.status = "ok" THEN StatCard(stage.value)
    ELSE IF stage.status = "error" THEN ErrorLabel(prefix, stage)
    ELSE NoWidget

\* what display_results shows below the game log for the games against
\* the team
VsTeamLogWidget(team, data) ==
    IF data.vs_team_log # <<>>
    THEN [status |-> "game_log", rows |-> data.vs_team_log]
    ELSE [status |-> "label",
          message |-> IF data.team_not_found THEN "Could not find team"
                      ELSE "No games found",
          team |-> team,
          available_matchups |-> data.available_matchups]

\* the paths display_results hands to create_chart_display for a season
ChartsOf(data) ==
    (IF data.chart.status = "ok" THEN <<data.chart.value>> ELSE <<>>)
        \o (IF data.vs_chart.status = "ok" THEN <<data.vs_chart.value>> ELSE <<>>)

\* the widgets display_results creates for one entry of all_data
Section(player, team, data) ==
    [header       |-> data.season,
     season_stats |-> StatsWidget("Season Error", data.season_stats),
     vs_team      |-> StatsWidget("VS Team Error", data.vs_team_stats),
     charts       |-> ChartsOf(data),
     game_log     |-> IF data.game_log.status = "ok"
                      THEN [status |-> "game_log", rows |-> data.game_log.value]
                      ELSE IF data.game_log.status = "error"
                      THEN ErrorLabel("Game Log Error", data.game_log)
                      ELSE NoWidget,
     vs_team_log  |-> VsTeamLogWidget(team, data)]

\* concatenation of the sequences of a sequence
RECURSIVE Flatten(_)
Flatten(ss) == IF ss = <<>> THEN <<>> ELSE Head(ss) \o Flatten(Tail(ss))

\* display_results
display_results(g, player, team, all_data) ==
    update_status(
        [g EXCEPT !.results_frame =
                      @ \o [i \in 1..Len(all_data) |-> Section(player, team, all_data[i])],
                  !.chart_images =
                      @ \o Flatten([i \in 1..Len(all_data) |-> ChartsOf(all_data[i])])],
        "Statistics loaded successfully", "main")

\* the main loop runs the callback that waits longest
Callback(fn) ==
    /\ gui.after # <<>>
    /\ Head(gui.after).fn = fn
    /\ UNCHANGED <<provider, op, args, ret, trace, threads, pyplot, charts, workers>>

DisplayResults ==
    /\ Callback("display_results")
    /\ gui' = [display_results(gui, Head(gui.after).player, Head(gui.after).team,
                               Head(gui.after).all_data)
                  EXCEPT !.after = Tail(@)]

ShowError ==
    /\ Callback("showerror")
    /\ gui' = [gui EXCEPT !.messagebox = "An error occurred", !.after = Tail(@)]

\* mutant: the callback runs and leaves the button as it is
EnableFetchButton_StaysDisabled ==
    /\ Callback("enable_fetch_button")
    /\ gui' = [gui EXCEPT !.after = Tail(@)]

\* enable_fetch_button
EnableFetchButton ==
    /\ Callback("enable_fetch_button")
    /\ gui' = [gui EXCEPT !.fetch_btn = [state |-> "normal", text |-> "Fetch Statistics"],
                          !.after = Tail(@)]

InitGUI == provider \in SeasonLogs(Matchups, {10}, MaxGuiGames) /\ Start

\* a step of a worker thread
WorkerNext ==
    \E w \in 1..Len(workers) :
        \/ WorkerStart(w)
        \/ \E fails \in BOOLEAN : WorkerSeasonStats(w, fails)
        \/ \E fails \in BOOLEAN : WorkerVsTeamStats(w, fails)
        \/ \E fails \in BOOLEAN, vs_fails \in BOOLEAN : WorkerCharts(w, fails, vs_fails)
        \/ \E fails \in BOOLEAN : WorkerGameLog(w, fails)
        \/ WorkerRaises(w)
        \/ WorkerScheduleDisplay(w)
        \/ WorkerExcept(w)
        \/ WorkerFinally(w)

\* the main loop runs a callback
MainLoop ==
    \/ DisplayResults
    \/ ShowError
    \/ EnableFetchButton

NextGUI ==
    \/ \E p \in PlayerEntries, t \in TeamEntries, checked \in SUBSET (1..Len(seasons)) :
           FetchStats(p, t, checked)
    \/ ClearResults
    \/ \E w \in 1..Len(workers) : WorkerStart(w)
    \/ \E w \in 1..Len(workers), fails \in BOOLEAN : WorkerSeasonStats(w, fails)
    \/ \E w \in 1..Len(workers), fails \in BOOLEAN : WorkerVsTeamStats(w, fails)
    \/ \E w \in 1..Len(workers), fails \in BOOLEAN, vs_fails \in BOOLEAN :
           WorkerCharts(w, fails, vs_fails)
    \/ \E w \in 1..Len(workers), fails \in BOOLEAN : WorkerGameLog(w, fails)
    \/ \E w \in 1..Len(workers) : WorkerRaises(w)
    \/ \E w \in 1..Len(workers) : WorkerScheduleDisplay(w)
    \/ \E w \in 1..Len(workers) : WorkerExcept(w)
    \/ \E w \in 1..Len(workers) : WorkerFinally(w)
    \/ DisplayResults
    \/ ShowError
    \/ EnableFetchButton

SpecGUI == InitGUI /\ [][NextGUI]_vars

\* SpecGUI with the scheduling the claims about progress start from: a
\* thread that can take a step takes one (every call the worker makes
\* returns or raises), and the main loop keeps running the callbacks that
\* wait.  Nobody has to press a button.
\* The entries are a sample of those of SpecGUI (a missing and a known
\* player, a known team, no season and all seasons), and the provider
\* holds one game.
LivePlayerEntries == { <<>>, <<" ">> \o LeBron_James }

LiveTeamEntries == { GSW \o <<" ">> }

LiveChecked == { {}, 1..Len(seasons) }

InitGUILive == provider = <<GameRow(1, LAL_vs_GSW, 10)>> /\ Start

NextGUILive ==
    \/ \E p \in LivePlayerEntries, t \in LiveTeamEntries, checked \in LiveChecked :
           FetchStats(p, t, checked)
    \/ ClearResults
    \/ \E w \in 1..Len(workers) : WorkerStart(w)
    \/ \E w \in 1..Len(workers), fails \in BOOLEAN : WorkerSeasonStats(w, fails)
    \/ \E w \in 1..Len(workers), fails \in BOOLEAN : WorkerVsTeamStats(w, fails)
    \/ \E w \in 1..Len(workers), fails \in BOOLEAN, vs_fails \in BOOLEAN :
           WorkerCharts(w, fails, vs_fails)
    \/ \E w \in 1..Len(workers), fails \in BOOLEAN : WorkerGameLog(w, fails)
    \/ \E w \in 1..Len(workers) : WorkerRaises(w)
    \/ \E w \in 1..Len(workers) : WorkerScheduleDisplay(w)
    \/ \E w \in 1..Len(workers) : WorkerExcept(w)
    \/ \E w \in 1..Len(workers) : WorkerFinally(w)
    \/ DisplayResults
    \/ ShowError
    \/ EnableFetchButton

SpecGUILive ==
    InitGUILive /\ [][NextGUILive]_vars /\ WF_vars(WorkerNext) /\ WF_vars(MainLoop)

(***************************************************************************)
(* Properties.                                                             *)
(***************************************************************************)
CoreOps ==
    {"get_player_season_stats", "get_player_vs_team_stats",
     "get_player_percentiles_season", "get_player_percentiles_vs_team",
     "get_player_game_log"}

VsTeamOps == {"get_player_vs_team_stats", "get_player_percentiles_vs_team"}

\* the last call resolved a team text
TeamResolved == trace.team.stages # <<>>

\* the team text of the last call
TeamArg == args[Len(args)]

Position(s, x) == CHOOSE i \in 1..Len(s) : s[i] = x

Occurs(s, x) == \E i \in 1..Len(s) : s[i] = x

\* C1: every team resolver consults its stages in the order abbreviation,
\* full name, nickname; the full-name stage always runs before the nickname
\* stage.
C1_FixedStageOrder ==
    TeamResolved =>
        LET s == trace.team.stages
        IN  /\ Occurs(s, "abbreviation") => s[1] = "abbreviation"
            /\ Occurs(s, "nickname") =>
                   /\ Occurs(s, "full_name")
                   /\ Position(s, "full_name") < Position(s, "nickname")

\* the players the roster's full-name lookup selects for a text
PlayersFound(text) ==
    { i \in 1..Len(NBAPlayers) : re_search(text, NBAPlayers[i].full_name) }

\* C2 (as stated): a player is resolved only when the text is exactly one
\* player's full name; no partial match produces a result.
C2_ExactFullNameOnly ==
    (op \in CoreOps /\ trace.player.status = "ok") =>
        \E i \in 1..Len(NBAPlayers) : NBAPlayers[i].full_name = args[1]

\* C2 (amended): in all five entry points the player text resolves to the
\* single player the roster's full-name lookup finds, fails with "not found"
\* when it finds none and with "multiple players" when it finds two or more,
\* the error carrying every candidate; the lookup is a case-insensitive
\* search of the text inside the full name.
C2_PlayerResolution ==
    op \in CoreOps =>
        LET found == PlayersFound(args[1])
        IN  /\ found = {} => ret = Raise("PlayerNotFound", <<>>)
            /\ Cardinality(found) >= 2 =>
                   /\ ret.status = "error"
                   /\ ret.error = "MultiplePlayers"
                   /\ Len(ret.candidates) = Cardinality(found)
                   /\ \A i \in found : Occurs(ret.candidates, NBAPlayers[i])
            /\ Cardinality(found) = 1 =>
                   /\ \A i \in found : trace.player = Return(NBAPlayers[i].id)
                   /\ ret.status = "error" =>
                          ret.error \notin {"PlayerNotFound", "MultiplePlayers"}

\* a partial name that one player's full name contains is resolved
C2_Witness ==
    /\ op = "get_player_game_log"
    /\ args = << <<"L", "e", "B", "r", "o", "n">> >>
    /\ ret.status = "ok"

\* C3: the matchup filter keeps exactly the game records whose matchup
\* contains the opponent's abbreviation (letter case ignored), each once and
\* in their original order.
C3_MatchupFilterExact ==
    (op \in VsTeamOps /\ Occurs(trace.steps, "filter")) =>
        LET abbr == trace.team.team_list[1].abbreviation
            kept == trace.df_vs_team
        IN  /\ \A i \in 1..Len(kept) :
                   /\ kept[i].Game_ID \in 1..Len(provider)
                   /\ kept[i] = provider[kept[i].Game_ID]
            /\ \A i, j \in 1..Len(kept) :
                   i < j => kept[i].Game_ID < kept[j].Game_ID
            /\ \A g \in 1..Len(provider) :
                   (\E i \in 1..Len(kept) : kept[i].Game_ID = g)
                       <=> re_search(abbr, provider[g].MATCHUP)

\* the games [LAL vs. GSW, LAL @ BOS, LAL vs. GSW] filtered by GSW
C3_Witness ==
    /\ op \in VsTeamOps
    /\ Len(provider) = 3
    /\ [i \in 1..3 |-> provider[i].MATCHUP] = <<LAL_vs_GSW, LAL_at_BOS, LAL_vs_GSW>>
    /\ ret.status = "ok"
    /\ [i \in 1..Len(trace.df_vs_team) |-> trace.df_vs_team[i].Game_ID] = <<1, 3>>

PercentileOps == {"get_player_percentiles_season", "get_player_percentiles_vs_team"}

StatsOps == {"get_player_season_stats", "get_player_vs_team_stats"}

\* the game records the last call summarized
Summarized == IF op \in VsTeamOps THEN trace.df_vs_team ELSE provider

Sorted(s) == SortSeq(s, LAMBDA x, y : x < y)

SeqMax(s) == CHOOSE m \in { s[i] : i \in 1..Len(s) } : \A i \in 1..Len(s) : s[i] <= m

\* the q-th percentile of the sorted values s by linear interpolation: rank
\* h = (n - 1) q / 100, weights 1 - frac(h) and frac(h) on the two ranks
\* around it
LinearPercentile(s, q) ==
    LET n     == Len(s)
        k     == (n - 1) * q
        below == (k \div 100) + 1
        above == IF below < n THEN below + 1 ELSE n
        w     == k % 100
    IN  Rat((100 - w) * s[below] + w * s[above], 100)

\* C4: the 25th/50th/75th/100th percentiles of every stat are the
\* linear-interpolation percentiles of the sorted per-game values; values
\* [10, 20, 30, 40] give 17.5, 25, 32.5 and 40, and the 100th percentile is
\* the maximum.
C4_LinearInterpolation ==
    (op \in PercentileOps /\ ret.status = "ok") =>
        \A k \in PercentileStats :
            LET raw == ret.value.raw_data[k]
                p   == ret.value.percentiles[k]
            IN  /\ raw = Column(Summarized, StatColumn[k])
                /\ \A q \in {25, 50, 75, 100} :
                       p[q] = LinearPercentile(Sorted(raw), q)
                /\ p[100] = Rat(SeqMax(raw), 1)
                /\ Sorted(raw) = <<10, 20, 30, 40>> =>
                       /\ p[25] = Rat(35, 2)
                       /\ p[50] = Rat(25, 1)
                       /\ p[75] = Rat(65, 2)
                       /\ p[100] = Rat(40, 1)

\* point values [10, 20, 30, 40], in another order than sorted
C4_Witness ==
    /\ op = "get_player_percentiles_season"
    /\ ret.status = "ok"
    /\ ret.value.raw_data["points"] = <<40, 10, 30, 20>>
    /\ ret.value.percentiles["points"][25] = Rat(35, 2)
    /\ ret.value.percentiles["points"][75] = Rat(65, 2)

\* a * b, cancelling across before multiplying
RatMul(a, b) ==
    LET g1 == GCD(Abs(a.num), b.den)
        g2 == GCD(Abs(b.num), a.den)
    IN  Rat((a.num \div g1) * (b.num \div g2), (a.den \div g2) * (b.den \div g1))

IsZero(x) == ~x.nan /\ (x.coef = 0 \/ x.radicand.num = 0)

\* the avg / std / cv cells the last call printed or drew
Reported == IF ret.status = "printed" THEN ret.lines ELSE ret.cells

\* C5: the coefficient of variation reported for every stat is
\* 100 * (standard deviation / mean), and 0 whenever the mean is 0.
C5_CoefficientOfVariation ==
    ret.status \in {"printed", "card"} =>
        \A k \in FormulaStats :
            LET c == Reported[k]
            IN  /\ c.avg.num = 0 => IsZero(c.cv)
                /\ (c.avg.num > 0 /\ c.std.nan) => c.cv.nan
                /\ (c.avg.num > 0 /\ ~c.std.nan) =>
                       /\ ~c.cv.nan
                       /\ c.cv.coef = 100 * c.std.coef
                       /\ RatMul(c.cv.radicand, RatMul(c.avg, c.avg))
                              = c.std.radicand

\* games in which the steals vary and no game has an assist: the CV of the
\* assists is 0 and the CV of the steals is not
C5_Witness ==
    /\ ret.status = "printed"
    /\ ret.games_played >= 2
    /\ ret.lines["assists"].avg.num = 0
    /\ IsZero(ret.lines["assists"].cv)
    /\ ret.lines["steals"].avg.num > 0

\* C6: when the provider returns no game, every core operation that asked it
\* fails with the no-games error; an empty season is never a success.
C6_EmptySeasonIsNoData ==
    op \in CoreOps =>
        /\ (provider = <<>> /\ Occurs(trace.steps, "PlayerGameLog")) =>
               ret = Raise("NoGamesSeason", <<>>)
        /\ ret.status = "ok" => provider # <<>>

C6_Witness ==
    /\ provider = <<>>
    /\ op = "get_player_game_log"
    /\ trace.player.status = "ok"
    /\ ret = Raise("NoGamesSeason", <<>>)

\* C7: a summary of exactly one game has standard deviation 0 for every
\* stat.
C7_SingleGameStdZero ==
    (op \in StatsOps /\ ret.status = "ok" /\ ret.value.games_played = 1) =>
        \A k \in FormulaStats : IsZero(ret.value.std_devs[k])

\* C8: over more than one game, the average of every stat is the sum of the
\* per-game values over the number of games and the standard deviation is
\* the sample one: n (n - 1) std^2 = n sum(x^2) - (sum x)^2, over all the
\* games summarized.
C8_MeanAndSampleStd ==
    (op \in StatsOps /\ ret.status = "ok" /\ ret.value.games_played > 1) =>
        LET n == Len(Summarized)
        IN  /\ ret.value.games_played = n
            /\ \A k \in FormulaStats :
                   LET x   == Column(Summarized, StatColumn[k])
                       S   == SeqSum(x)
                       Q   == SeqSum([i \in 1..n |-> x[i] * x[i]])
                       avg == ret.value.averages[k]
                       std == ret.value.std_devs[k]
                   IN  /\ avg.num * n = S * avg.den
                       /\ ~std.nan
                       /\ std.coef = 1
                       /\ std.radicand.num * (n * (n - 1))
                              = (n * Q - S * S) * std.radicand.den

\* points 0, 10, 40: mean 50/3, sample variance 1300/3
C8_Witness ==
    /\ op = "get_player_season_stats"
    /\ ret.status = "ok"
    /\ Column(provider, "PTS") = <<0, 10, 40>>
    /\ ret.value.averages["points"] = Rat(50, 3)
    /\ ret.value.std_devs["points"] = Root(1, Rat(1300, 3))

\* the teams whose abbreviation is the text in upper case
AbbreviationOwners(text) ==
    { i \in 1..Len(NBATeams) : NBATeams[i].abbreviation = str_upper(text) }

\* C9: the abbreviation stage is tried exactly for texts of at most 3
\* characters, matches the upper-cased text against the abbreviations, yields
\* at most one team, and a team it yields is the result with no other stage
\* consulted.
C9_AbbreviationStage ==
    TeamResolved =>
        LET owners == AbbreviationOwners(TeamArg)
            s      == trace.team.stages
        IN  /\ Occurs(s, "abbreviation") <=> Len(TeamArg) <= 3
            /\ Cardinality(owners) <= 1
            /\ (Len(TeamArg) <= 3 /\ owners # {}) =>
                   /\ s = <<"abbreviation">>
                   /\ \A i \in owners :
                          /\ trace.team.team_list = <<NBATeams[i]>>
                          /\ op = "find_team_abbreviation" =>
                                 ret = Return(NBATeams[i].abbreviation)
                   /\ ret.status = "error" =>
                          ret.error \notin {"TeamNotFound", "MultipleTeams"}
            /\ (Len(TeamArg) > 3 \/ owners = {}) =>
                   \E i \in 1..Len(s) : s[i] # "abbreviation"

\* "gsw" resolves to GSW at the abbreviation stage
C9_Witness ==
    /\ op = "find_team_abbreviation"
    /\ args = << <<"g", "s", "w">> >>
    /\ trace.team.stages = <<"abbreviation">>
    /\ ret = Return(GSW)

\* C10: in every resolver, nickname candidates that are more than one are
\* narrowed to those whose nickname equals the text (case ignored), and a
\* single one left is the team returned.
C10_NicknameNarrowing ==
    TeamResolved =>
        LET found == trace.team.nickname_found
            exact == SelectSeq(found,
                         LAMBDA t : str_lower(t.nickname) = str_lower(TeamArg))
        IN  (Len(found) > 1 /\ Len(exact) = 1) =>
                /\ trace.team.team_list = exact
                /\ ~(ret.status = "error" /\ ret.error = "MultipleTeams")

(***************************************************************************)
(* Claims C11 to C20.                                                      *)
(***************************************************************************)
\* C11: after the cascade a vs-team operation fails with "team not found"
\* when no candidate remains, goes on with the team when exactly one
\* remains, and fails with "multiple teams" when more than one remains; that
\* error carries one "full name (abbreviation)" text per surviving
\* candidate.
C11_TeamOutcome ==
    (op \in VsTeamOps /\ TeamResolved) =>
        LET team_list == trace.team.team_list
        IN  /\ team_list = <<>> => ret = Raise("TeamNotFound", <<>>)
            /\ Len(team_list) = 1 =>
                   (ret.status = "error" =>
                        ret.error \notin {"TeamNotFound", "MultipleTeams"})
            /\ Len(team_list) > 1 =>
                   ret = Raise("MultipleTeams",
                               [i \in 1..Len(team_list) |-> TeamInfo(team_list[i])])

\* the opponent text of tests/test_stats.py and guides/quick_start.py
Lakers == <<"L", "a", "k", "e", "r", "s">>

\* C12 (as stated): resolving "Lakers" yields exactly one team, and the
\* nickname stage produces it: the abbreviation and full-name stages
\* produce no candidate for the text.
C12_LakersByNickname ==
    (TeamResolved /\ TeamArg = Lakers) =>
        LET s == trace.team.stages
        IN  /\ Len(trace.team.team_list) = 1
            /\ s[Len(s)] = "nickname"
            /\ AbbreviationStage(Lakers) = <<>>
            /\ find_teams_by_full_name(Lakers) = <<>>

\* C12 (amended): resolving "Lakers" yields exactly one team, the Los
\* Angeles Lakers; in formula.py and in the GUI the full-name stage produces
\* it and the nickname stage is not consulted, in percentile.py the nickname
\* stage produces it and the full-name stage is not consulted; the
\* abbreviation stage is skipped, the text being longer than 3 characters.
C12_LakersResolution ==
    (TeamResolved /\ TeamArg = Lakers) =>
        /\ trace.team.team_list = <<NBATeams[1]>>
        /\ trace.team.stages =
               IF op = "get_player_percentiles_vs_team"
               THEN <<"nickname">>
               ELSE <<"full_name">>

\* "Lakers" resolved by formula.py, and the games against LAL summarized
C12_Witness ==
    /\ op = "get_player_vs_team_stats"
    /\ TeamArg = Lakers
    /\ trace.team.stages = <<"full_name">>
    /\ ret.status = "ok"

\* the last call resolved its player and one opponent, the season has
\* games, and no game's matchup contains the opponent's abbreviation
NoGameMatches ==
    /\ trace.player.status = "ok"
    /\ Len(trace.team.team_list) = 1
    /\ provider # <<>>
    /\ \A g \in 1..Len(provider) :
           ~re_search(trace.team.team_list[1].abbreviation, provider[g].MATCHUP)

\* C13: when the season has games but none matches the resolved opponent, a
\* vs-team operation returns no summary and fails with the "no games vs
\* team" error, which it raises in no other case and whose message differs
\* from the messages of "team not found" and of "no games in the season".
C13_NoGamesVsTeam ==
    op \in VsTeamOps =>
        /\ NoGameMatches => ret = Raise("NoGamesVsTeam", <<>>)
        /\ (ret.status = "error" /\ ret.error = "NoGamesVsTeam") => NoGameMatches
        /\ (ret.status = "error" /\ ret.error = "NoGamesSeason") => provider = <<>>
        /\ (ret.status = "error" /\ ret.error = "TeamNotFound") =>
               trace.team.team_list = <<>>
        /\ ErrorMessage("NoGamesVsTeam", args[1], TeamArg)
               \notin { ErrorMessage("NoGamesSeason", args[1], TeamArg),
                        ErrorMessage("TeamNotFound", args[1], TeamArg) }

\* a season of two games against GSW, asked for the games against Boston
C13_Witness ==
    /\ op \in VsTeamOps
    /\ TeamArg = <<"B", "o", "s">>
    /\ Len(provider) = 2
    /\ \A g \in 1..2 : provider[g].MATCHUP = LAL_vs_GSW
    /\ ret = Raise("NoGamesVsTeam", <<>>)

\* the opponent a matchup text names: "LAL vs. GSW" and "LAL @ GSW" are
\* games of LAL against GSW
MatchupOpponent(matchup) == SubSeq(matchup, Len(matchup) - 2, Len(matchup))

\* C14: every game a vs-team result covers is a game against the resolved
\* opponent (the other team of the matchup, not the player's own team), and
\* games_played is the number of the season's games against that opponent;
\* the player's own team as opponent selects no game against another team.
C14_OnlyGamesAgainstOpponent ==
    (op \in VsTeamOps /\ ret.status = "ok") =>
        LET abbr == trace.team.team_list[1].abbreviation
            kept == trace.df_vs_team
        IN  /\ \A i \in 1..Len(kept) : MatchupOpponent(kept[i].MATCHUP) = abbr
            /\ ret.value.games_played =
                   Cardinality({ g \in 1..Len(provider) :
                                   MatchupOpponent(provider[g].MATCHUP) = abbr })

\* C15: a successful percentile result keeps, for each stat field, the raw
\* per-game values of exactly the games it summarized, one per game and in
\* the order of the game log, and games_played is the length of each of
\* these arrays.
C15_RawDataRetained ==
    (op \in PercentileOps /\ ret.status = "ok") =>
        LET games == Summarized
            n     == ret.value.games_played
        IN  /\ n = Len(games)
            /\ \A k \in PercentileStats :
                   LET raw == ret.value.raw_data[k]
                   IN  /\ Len(raw) = n
                       /\ \A i \in 1..n : raw[i] = games[i][StatColumn[k]]

\* three games, the first and the last against GSW with 10 and 0 points
C15_Witness ==
    /\ op = "get_player_percentiles_vs_team"
    /\ ret.status = "ok"
    /\ Len(provider) = 3
    /\ ret.value.games_played = 2
    /\ ret.value.raw_data["points"] = <<10, 0>>
    /\ ret.value.raw_data["rebounds"] = <<20, 10>>

\* C16: no operation that consumes a season's game records modifies them:
\* the frame the game-log display was handed is, after the display, as the
\* provider delivered it.
C16_RecordsUnmodified ==
    op = "create_game_log_display" => ret.game_log_df = ret.delivered

\* the steps of a vs-team operation, in their order
VsTeamSteps == <<"find_players", "find_teams", "PlayerGameLog", "filter", "summarize">>

\* the team resolution the last vs-team call makes for its team text
TeamCandidates ==
    IF op = "get_player_percentiles_vs_team"
    THEN ResolveTeamPercentile(TeamArg).team_list
    ELSE ResolveTeamFormula(TeamArg).team_list

\* the last call failed at the provider's request
ProviderFailed == ret.status = "error" /\ ret.error = "ProviderError"

\* how many steps the last vs-team call runs: it stops at the first step
\* that fails
StepsRun ==
    IF Cardinality(PlayersFound(args[1])) # 1 THEN 1
    ELSE IF Len(TeamCandidates) # 1 THEN 2
    ELSE IF ProviderFailed \/ provider = <<>> THEN 3
    ELSE IF \A g \in 1..Len(provider) :
                ~re_search(TeamCandidates[1].abbreviation, provider[g].MATCHUP)
         THEN 4
    ELSE 5

\* C17: a vs-team operation runs player resolution, team resolution,
\* provider fetch, opponent filter and aggregation in this order and stops
\* at the first step that fails: the provider is not called when the player
\* or the team is not resolved, and a failed call returns an error and no
\* summary.
C17_StepsInOrder ==
    op \in VsTeamOps =>
        /\ trace.steps = SubSeq(VsTeamSteps, 1, StepsRun)
        /\ StepsRun < 5 => /\ ret.status = "error"
                           /\ DOMAIN ret = {"status", "error", "candidates"}
        /\ StepsRun = 5 => ret.status = "ok"
        /\ (trace.player.status # "ok" \/ Len(trace.team.team_list) # 1) =>
               ~Occurs(trace.steps, "PlayerGameLog")

\* a call that stops at the provider, and one that stops at the team
C17_Witness ==
    /\ op = "get_player_percentiles_vs_team"
    /\ \/ ProviderFailed /\ trace.steps = <<"find_players", "find_teams", "PlayerGameLog">>
       \/ ret.status = "ok" /\ Len(trace.df_vs_team) = 2 /\ Len(provider) = 3

\* how often the last call asked the provider for the game log
Fetches ==
    Cardinality({ i \in 1..Len(trace.steps) : trace.steps[i] = "PlayerGameLog" })

\* C18: a call of a core operation asks the provider at most once; when the
\* request fails or the answer is empty the call ends there with an error,
\* without asking again, and a call that returns a result has asked exactly
\* once.
C18_FetchOnce ==
    op \in CoreOps =>
        /\ Fetches <= 1
        /\ ProviderFailed =>
               /\ Fetches = 1
               /\ trace.steps[Len(trace.steps)] = "PlayerGameLog"
               /\ DOMAIN ret = {"status", "error", "candidates"}
        /\ (Fetches = 1 /\ ~ProviderFailed /\ provider = <<>>) =>
               /\ ret = Raise("NoGamesSeason", <<>>)
               /\ trace.steps[Len(trace.steps)] = "PlayerGameLog"
        /\ ret.status = "ok" => (Fetches = 1 /\ provider # <<>>)

\* the provider holds three games and its request fails
C18_Witness ==
    /\ op = "get_player_season_stats"
    /\ Len(provider) = 3
    /\ ProviderFailed
    /\ trace.steps = <<"find_players", "PlayerGameLog">>

\* the abbreviation a resolver ends with: that of its single candidate, or
\* none (<<>>) when no candidate or several remain
ResolvedAbbreviation(team) ==
    IF Len(team.team_list) = 1 THEN team.team_list[1].abbreviation ELSE <<>>

ChartAlone(t) ==
    [saved  |-> TRUE,
     figure |-> [suptitle     |-> Suptitle(threads[t].player_name),
                 boxplots     |-> ThreadResult(threads[t].op, threads[t].player_name),
                 tight_layout |-> TRUE]]

\* C19: requests hold no state across calls: however the steps of several
\* requests interleave, each finished request has the result it has when it
\* runs alone on the same arguments and provider data: the value it returns
\* (or the error it raises) and, for a plot request, the chart at its
\* save_path.
C19_ResultAsWhenAlone ==
    \A t \in Threads :
        threads[t].pc = "done" =>
            /\ threads[t].ret = ThreadResult(threads[t].op, threads[t].player_name)
            /\ (threads[t].op = "plot_player_percentiles_season"
                    /\ threads[t].ret.status = "ok") =>
                   charts[t] = ChartAlone(t)

(***************************************************************************)
(* Claims C21 to C30.                                                      *)
(***************************************************************************)
\* the last n rows of df, all of them when df has fewer
LastRows(df, n) ==
    SubSeq(df, (IF n < Len(df) THEN Len(df) - n ELSE 0) + 1, Len(df))

\* C21: print_player_game_log with last_n_games = N >= 1 shows only the
\* last N games of the season log, in the order the provider delivered it,
\* and shows all games when last_n_games is not specified.
C21_LastNGames ==
    (op = "print_player_game_log" /\ ret.status = "printed") =>
        LET shown == IF args[2] >= 1 THEN LastRows(provider, args[2]) ELSE provider
        IN  ret.lines = [i \in 1..Len(shown) |-> GameLogLine(shown[i])]

\* C22: during a fetch every update of a widget is executed on the main
\* thread: the status bar is never configured by a worker thread.
C22_WidgetsOnMainThread == gui.status_label.thread = "main"

\* the stages of the loop body of fetch_stats_thread
Stages == {"season_stats", "vs_team_stats", "chart", "vs_chart", "game_log"}

\* the seasons of the entries of all_data, in order
SeasonsOf(all_data) == [i \in 1..Len(all_data) |-> all_data[i].season]

\* the place of a season among the checkboxes (later seasons come later)
SeasonIndex(s) == CHOOSE i \in 1..Len(seasons) : seasons[i] = s

\* C23: a worker that runs the loop has made one entry for each season it
\* is done with, the entries and the seasons still to do are the selected
\* seasons in reverse of the selection order, most recent first, and every
\* stage of every entry has run and left its value or its error, whatever
\* the stages before it did.
C23_OneEntryPerSeason ==
    \A w \in 1..Len(workers) :
        LET me == workers[w]
        IN  me.pc \in {"start", "season_stats", "vs_team_stats", "charts", "game_log",
                       "display"} =>
                /\ SeasonsOf(me.all_data) \o me.todo = reversed(me.seasons)
                /\ me.pc = "display" => me.todo = <<>>
                /\ \A i \in 1..Len(me.all_data) :
                       /\ \A j \in 1..(i - 1) :
                              SeasonIndex(me.all_data[j].season)
                                  > SeasonIndex(me.all_data[i].season)
                       /\ \A stage \in Stages :
                              me.all_data[i][stage].status \in {"ok", "error"}

\* a worker done with two seasons, whose first season statistics stage
\* failed while the stages and the season after it went through
C23_Witness ==
    \E w \in 1..Len(workers) :
        /\ workers[w].pc = "display"
        /\ Len(workers[w].all_data) = 2
        /\ workers[w].all_data[1].season_stats.status = "error"
        /\ workers[w].all_data[1].vs_team_stats.status = "ok"
        /\ workers[w].all_data[1].game_log.status = "ok"
        /\ workers[w].all_data[2].season_stats.status = "ok"

\* C24: once fetch_stats has disabled the Fetch Statistics button and
\* started a worker, the button is eventually enabled again, whether the
\* worker finishes normally or raises.
C24_ButtonEnabledAgain ==
    (gui.fetch_btn.state = "disabled") ~> (gui.fetch_btn.state = "normal")

\* the button is enabled again after the worker of a fetch raised
C24_Witness ==
    /\ gui.fetch_btn.state = "normal"
    /\ gui.messagebox = "An error occurred"
    /\ gui.after = <<>>
    /\ workers = <<>>

\* C25: at most one fetch_stats_thread is active at any time, and while
\* one is active the Fetch Statistics button is disabled, so that no press
\* can start a second one.
C25_OneWorker ==
    /\ Len(workers) <= 1
    /\ workers # <<>> => gui.fetch_btn.state = "disabled"

\* the worker of a second fetch at work, the first one gone
C25_Witness ==
    /\ gui.fetches = 2
    /\ Len(workers) = 1
    /\ workers[1].pc = "game_log"
    /\ gui.fetch_btn.state = "disabled"

\* a text of blanks only
Blank(s) == \A i \in 1..Len(s) : s[i] = " "

\* the error fetch_stats reports for entries it does not accept
ValidationError(player_entry, team_entry, checked) ==
    IF Blank(player_entry) THEN "Please enter a player name"
    ELSE IF Blank(team_entry) THEN "Please enter an opponent team"
    ELSE IF checked = {} THEN "Please select at least one season"
    ELSE "none"

\* C26: fetch_stats with an empty (after trimming) player, an empty team or
\* no selected season reports the error and starts no worker; the button
\* stays enabled and the displayed results and chart_images stay as they
\* are.
C26_InvalidFetchLeavesWindow ==
    [][gui'.fetches # gui.fetches =>
          \A p \in PlayerEntries, t \in TeamEntries, checked \in SUBSET (1..Len(seasons)) :
              (ValidationError(p, t, checked) # "none" /\ FetchStats(p, t, checked)) =>
                  /\ workers' = workers
                  /\ gui'.messagebox = ValidationError(p, t, checked)
                  /\ gui'.fetch_btn = gui.fetch_btn
                  /\ gui'.fetch_btn.state = "normal"
                  /\ gui'.results_frame = gui.results_frame
                  /\ gui'.chart_images = gui.chart_images
                  /\ gui'.after = gui.after]_vars

\* a press with no season selected, with the results and the charts of the
\* fetch before it still shown
C26_Witness ==
    /\ gui.messagebox = "Please select at least one season"
    /\ gui.results_frame # <<>>
    /\ gui.chart_images # <<>>
    /\ gui.fetch_btn.state = "normal"
    /\ workers = <<>>

\* C27: Clear Results can be pressed in every state, a press leaves the
\* worker, the callbacks that wait and the Fetch Statistics button as they
\* are, and display_results renders every entry the worker produced,
\* whether or not the results were cleared while the fetch was in flight.
C27_ClearDoesNotCancel ==
    [][/\ ENABLED ClearResults
       /\ ClearResults =>
              /\ workers' = workers
              /\ gui'.after = gui.after
              /\ gui'.fetch_btn = gui.fetch_btn
       /\ DisplayResults =>
              LET cb == Head(gui.after)
              IN  /\ cb.all_data # <<>>
                  /\ gui'.results_frame =
                         [i \in 1..Len(cb.all_data) |->
                             Section(cb.player, cb.team, cb.all_data[i])]]_vars

\* results on display that were fetched by a worker during whose fetch
\* Clear Results was pressed
C27_Witness ==
    /\ gui.cleared_in_flight
    /\ gui.status_label.text = "Statistics loaded successfully"
    /\ gui.results_frame # <<>>
    /\ gui.results_frame[1].season_stats.status = "card"

\* the display_results callbacks that wait
DisplayCallbacks ==
    { i \in 1..Len(gui.after) : gui.after[i].fn = "display_results" }

\* the number of teams the GUI's lookup is left with for a team text
TeamsLeft(team) == Len(ResolveTeamGUI(team).team_list)

\* C28: for a team text that no team matches and for one that more than
\* one team matches, find_team_abbreviation returns None, every entry whose
\* game log was fetched is flagged team_not_found, and display_results is
\* handed the same could-not-find-team message for both, with the season's
\* matchups and no list of candidate teams.
C28_AmbiguousAsNotFound ==
    \A c \in DisplayCallbacks :
        LET cb == gui.after[c]
        IN  TeamsLeft(cb.team) # 1 =>
                /\ find_team_abbreviation(cb.team).ret.value = <<>>
                /\ \A i \in 1..Len(cb.all_data) :
                       cb.all_data[i].game_log.status = "ok" =>
                           /\ cb.all_data[i].team_not_found
                           /\ VsTeamLogWidget(cb.team, cb.all_data[i]) =
                                  [status |-> "label",
                                   message |-> "Could not find team",
                                   team |-> cb.team,
                                   available_matchups |->
                                       UniqueMatchups(cb.all_data[i].game_log.value)]

\* the results of a fetch for a team text that two teams match: the entry is
\* flagged team_not_found, and the vs-team statistics stage has stored the
\* error that names the candidates
C28_Witness ==
    \E c \in DisplayCallbacks :
        /\ TeamsLeft(gui.after[c].team) > 1
        /\ gui.after[c].all_data[1].game_log.status = "ok"
        /\ gui.after[c].all_data[1].team_not_found
        /\ gui.after[c].all_data[1].vs_team_stats.status = "error"
        /\ gui.after[c].all_data[1].vs_team_stats.candidates # <<>>

\* the same for a team text that no team matches
C28_WitnessUnknown ==
    \E c \in DisplayCallbacks :
        /\ TeamsLeft(gui.after[c].team) = 0
        /\ gui.after[c].all_data[1].game_log.status = "ok"
        /\ gui.after[c].all_data[1].team_not_found

\* the games of the season log whose matchup text contains the abbreviation
\* of the team the last call resolved, in the order of the log
FilteredSubsequence ==
    SelectSeq(provider,
              LAMBDA g : re_search(trace.team.team_list[1].abbreviation, g.MATCHUP))

\* what the season operation of the same module returns for the filtered
\* games alone
SeasonOfFiltered ==
    IF op = "get_player_vs_team_stats"
    THEN get_player_season_stats(args[1], FilteredSubsequence).ret
    ELSE get_player_percentiles_season(args[1], FilteredSubsequence).ret

C29_WitnessStats ==
    /\ op = "get_player_vs_team_stats"
    /\ ret.status = "ok"
    /\ ret.value.games_played = 2
    /\ Len(provider) = 3

\* the stat fields of the aggregation summary of the games the last call
\* summarized
AggregationFields ==
    DOMAIN get_player_season_stats(LeBron_James, Summarized).ret.value.averages

\* C30 as stated: the percentile summary covers the same stat fields as the
\* aggregation summary, each with its percentiles and its raw values.
C30_SameFields ==
    (op \in PercentileOps /\ ret.status = "ok") =>
        /\ DOMAIN ret.value.percentiles = AggregationFields
        /\ DOMAIN ret.value.raw_data = AggregationFields

\* C30, amended: the aggregation summary has a mean and a standard
\* deviation for points, rebounds, assists, blocks, steals and
\* three-pointers made; the percentile summary covers these fields except
\* the three-pointers made, each with its four percentiles and one raw
\* value per game.
C30_FieldsButThreePointers ==
    (op \in PercentileOps /\ ret.status = "ok") =>
        LET agg == get_player_season_stats(LeBron_James, Summarized).ret.value
        IN  /\ "3pt" \in DOMAIN agg.averages
            /\ DOMAIN agg.std_devs = DOMAIN agg.averages
            /\ DOMAIN ret.value.percentiles = DOMAIN agg.averages \ {"3pt"}
            /\ DOMAIN ret.value.raw_data = DOMAIN agg.averages \ {"3pt"}
            /\ \A k \in DOMAIN ret.value.percentiles :
                   /\ DOMAIN ret.value.percentiles[k] = {25, 50, 75, 100}
                   /\ Len(ret.value.raw_data[k]) = agg.games_played

\* percentiles of a season of three games
C30_Witness ==
    /\ op = "get_player_percentiles_season"
    /\ ret.status = "ok"
    /\ ret.value.games_played = 3
    /\ Cardinality(DOMAIN ret.value.percentiles) = 5

====
